---- MODULE Spec2Model ----
(***************************************************************************)
(* Cascade: a DAG-based task scheduler.  The model covers the persisted    *)
(* tables (projects, tasks, dependencies), the ARQ job queue, the request  *)
(* handlers of app/routes and the recalc worker of app/services/recalc.py. *)
(*                                                                         *)
(* Dates are integers (days since an arbitrary epoch); a timedelta of n    *)
(* days is the integer n.  A uuid4() value is modelled as a value that was *)
(* never produced before: task ids are drawn from TaskIds and not reused,  *)
(* and the k-th calc_version_id generated for task t is the pair <<t, k>>. *)
(***************************************************************************)
EXTENDS Integers, Sequences, FiniteSets, Bags, TLC

\* ------------------------------------------------------------------ bounds
\* Largest start date a request may carry (requests carry dates 0..MaxDate).
MaxDate == 2
\* Largest number of calc_version_id values generated in a run (uuid4 calls).
MaxTokens == 5

TaskIds == {"A", "B", "C", "D"}
ProjectIds == {"P", "Q"}
Users == {"u1", "u2"}
Durations == {0, 2}
Dates == 0..MaxDate
Handlers == {1, 2}
Workers == {1, 2}

\* ------------------------------------------------------------------- state
VARIABLES
    projects,   \* projects table: project id -> [owner_id]
    tasks,      \* tasks table (committed rows): task id -> row
    deps,       \* dependencies table (committed rows): bag of <<predecessor_id, successor_id>>
    queue,      \* ARQ queue: set of jobs [task_id, version_id] not yet picked up
    issued,     \* uuid4 state: number of calc_version_id values generated per task id
    txn,        \* per request handler: the open session (flushed, not yet committed)
    wrk,        \* per worker slot: the running recalc_subtree job and its locals
    discarded,  \* the jobs recalc_subtree logged as "Stale job discarded"
    expected,   \* reference schedule (task id -> start date) a run is compared with
    proposed,   \* changes of a simulation still to be applied as task updates
    response    \* body of the last response of a read-only endpoint

vars == <<projects, tasks, deps, queue, issued, txn, wrk, discarded, expected, proposed, response>>

\* ----------------------------------------------------------------- helpers
EmptyFn == [x \in {} |-> {}]

Max(S) == CHOOSE x \in S : \A y \in S : y <= x

\* The inline end-date computations of calculate_dates and simulate_changes
EndDate(start, duration) ==
    IF duration = 0 THEN start ELSE start + duration - 1

Token(t, k) == <<t, k>>

RECURSIVE SumOver(_, _)
SumOver(f, S) ==
    IF S = {} THEN 0
    ELSE LET x == CHOOSE y \in S : TRUE IN f[x] + SumOver(f, S \ {x})

\* Number of calc_version_id values generated so far.
TotalIssued(iss) == SumOver(iss, DOMAIN iss)

Job(t, version) == [task_id |-> t, version_id |-> version]

\* The rows of the dependencies table as a set of edges.
Edges(D) == BagToSet(D)

Successors(E, S) == {e[2] : e \in {x \in E : x[1] \in S}}

Predecessors(E, n) == {e[1] : e \in {x \in E : x[2] = n}}

\* WITH RECURSIVE downstream: the root and everything reachable from it.
RECURSIVE Downstream(_, _)
Downstream(E, S) ==
    LET n == S \cup Successors(E, S)
    IN  IF n = S THEN S ELSE Downstream(E, n)

\* nx.descendants: nodes reachable from root by at least one edge, root excluded
Descendants(E, root) == Downstream(E, Successors(E, {root})) \ {root}

\* nx.find_cycle succeeds iff some node reaches itself by at least one edge.
FindCycle(E) ==
    \E n \in {e[1] : e \in E} : n \in Downstream(E, Successors(E, {n}))

\* ------------------------------------------------------ app/services/graph.py
\* build_project_graph: every task of the project is a node; the edges are the
\* dependency rows whose predecessor is a task of the project (add_edge also
\* adds the endpoints as nodes).
build_project_graph(T, D, project_id) ==
    LET task_ids == {t \in DOMAIN T : T[t].project_id = project_id}
        dependencies == {e \in Edges(D) : e[1] \in task_ids}
    IN  [nodes |-> task_ids \cup {e[1] : e \in dependencies} \cup {e[2] : e \in dependencies},
         edges |-> dependencies]

\* A cycle test that looks at the stored edges only.
detect_cycle_stored_edges_only(T, D, project_id, new_predecessor_id, new_successor_id) ==
    FindCycle(build_project_graph(T, D, project_id).edges)

\* detect_cycle: add the proposed edge to the project graph, then find_cycle.
detect_cycle(T, D, project_id, new_predecessor_id, new_successor_id) ==
    LET graph == build_project_graph(T, D, project_id)
    IN  FindCycle(graph.edges \cup {<<new_predecessor_id, new_successor_id>>})

\* get_descendants: nx.descendants on the project graph; empty when the root
\* is not a node of it.
get_descendants(T, D, root_task_id, project_id) ==
    LET graph == build_project_graph(T, D, project_id)
    IN  IF root_task_id \notin graph.nodes THEN {}
        ELSE Descendants(graph.edges, root_task_id)

\* ----------------------------------------------------- app/services/recalc.py
\* Variant of fetch_subgraph that fetches the root and its successors only.
fetch_subgraph_downstream_only(T, D, root_task_id, project_id) ==
    LET E == Edges(D)
        downstream == Downstream(E, {root_task_id})
        task_ids == {t \in downstream \cap DOMAIN T : T[t].project_id = project_id}
    IN  [tasks |-> [t \in task_ids |-> T[t]],
         dependencies |-> {e \in E : e[1] \in task_ids /\ e[2] \in task_ids}]

\* fetch_subgraph: the root, its transitive successors, the direct predecessors
\* of those; restricted to rows of the root's project; with every dependency
\* row whose two endpoints were fetched.
fetch_subgraph(T, D, root_task_id, project_id) ==
    LET E == Edges(D)
        downstream == Downstream(E, {root_task_id})
        all_relevant == downstream \cup {e[1] : e \in {x \in E : x[2] \in downstream}}
        task_ids == {t \in all_relevant \cap DOMAIN T : T[t].project_id = project_id}
    IN  [tasks |-> [t \in task_ids |-> T[t]],
         dependencies |-> {e \in E : e[1] \in task_ids /\ e[2] \in task_ids}]

\* build_graph: node data keeps the fetched start date twice (current, original).
build_graph(fetched_tasks, dependencies) ==
    [nodes |-> [t \in DOMAIN fetched_tasks |->
                  [duration_days |-> fetched_tasks[t].duration_days,
                   start_date |-> fetched_tasks[t].start_date,
                   original_start_date |-> fetched_tasks[t].start_date]],
     edges |-> dependencies]

\* A sort that, when no node is ready, emits one of the waiting nodes anyway.
RECURSIVE TopoLoop_break_cycles(_, _, _)
TopoLoop_break_cycles(remaining, E, acc) ==
    LET ready == {n \in remaining : Predecessors(E, n) \cap remaining = {}}
    IN  IF remaining = {} THEN [ok |-> TRUE, order |-> acc]
        ELSE LET n == IF ready = {} THEN CHOOSE x \in remaining : TRUE
                      ELSE CHOOSE x \in ready : TRUE
             IN  TopoLoop_break_cycles(remaining \ {n}, E, Append(acc, n))

\* nx.topological_sort: repeatedly emit a node none of whose predecessors is
\* still waiting; NetworkXUnfeasible (ok = FALSE) when nodes remain but none is
\* ready, i.e. the graph has a cycle.
RECURSIVE TopoLoop(_, _, _)
TopoLoop(remaining, E, acc) ==
    LET ready == {n \in remaining : Predecessors(E, n) \cap remaining = {}}
    IN  IF remaining = {} THEN [ok |-> TRUE, order |-> acc]
        ELSE IF ready = {} THEN [ok |-> FALSE, order |-> <<>>]
        ELSE LET n == CHOOSE x \in ready : TRUE
             IN  TopoLoop(remaining \ {n}, E, Append(acc, n))

topological_sort(graph) == TopoLoop(DOMAIN graph.nodes, graph.edges, <<>>)

\* Variants of the loop of calculate_dates.  "stored_end": a task is pushed by
\* the end dates its predecessors had when they were fetched.  "reset_anchor":
\* a task without predecessors is moved to day 0 and listed when that moves it.
\* "list_all": every task with predecessors is listed, moved or not.
RECURSIVE CalcLoopVariant(_, _, _, _, _, _, _)
CalcLoopVariant(variant, graph, calculation_order, i, start, end, updated) ==
    IF i > Len(calculation_order) THEN updated
    ELSE
      LET task_id == calculation_order[i]
          predecessors == Predecessors(graph.edges, task_id)
          duration == graph.nodes[task_id].duration_days
          seen_end(p) == IF variant = "stored_end"
                         THEN EndDate(graph.nodes[p].original_start_date,
                                      graph.nodes[p].duration_days)
                         ELSE end[p]
          new_start == IF predecessors = {}
                       THEN IF variant = "reset_anchor" THEN 0 ELSE start[task_id]
                       ELSE LET earliest_valid_start ==
                                    Max({seen_end(p) : p \in predecessors}) + 1
                            IN  IF start[task_id] < earliest_valid_start
                                THEN earliest_valid_start
                                ELSE start[task_id]
      IN  CalcLoopVariant(variant, graph, calculation_order, i + 1,
                          [start EXCEPT ![task_id] = new_start],
                          [end EXCEPT ![task_id] = EndDate(new_start, duration)],
                          IF \/ new_start # graph.nodes[task_id].original_start_date
                             \/ variant = "list_all" /\ predecessors # {}
                          THEN Append(updated, [id |-> task_id, start_date |-> new_start])
                          ELSE updated)

CalcLoop_list_all(graph, calculation_order, i, start, end, updated) ==
    CalcLoopVariant("list_all", graph, calculation_order, i, start, end, updated)

CalcLoop_stored_predecessor_end(graph, calculation_order, i, start, end, updated) ==
    CalcLoopVariant("stored_end", graph, calculation_order, i, start, end, updated)

CalcLoop_reset_anchor(graph, calculation_order, i, start, end, updated) ==
    CalcLoopVariant("reset_anchor", graph, calculation_order, i, start, end, updated)

\* One iteration of the loop of calculate_dates for the i-th task of the order.
\* start, end: the node attributes start_date and end_date so far;
\* updated: the list updated_tasks so far.
RECURSIVE CalcLoop(_, _, _, _, _, _)
CalcLoop(graph, calculation_order, i, start, end, updated) ==
    IF i > Len(calculation_order) THEN updated
    ELSE
      LET task_id == calculation_order[i]
          predecessors == Predecessors(graph.edges, task_id)
          duration == graph.nodes[task_id].duration_days
      IN  IF predecessors = {}
          THEN \* anchor: keep the date, compute end_date for the successors
               CalcLoop(graph, calculation_order, i + 1, start,
                        [end EXCEPT ![task_id] = EndDate(start[task_id], duration)],
                        updated)
          ELSE
            LET max_predecessor_end == Max({end[p] : p \in predecessors})
                earliest_valid_start == max_predecessor_end + 1
                current_start == start[task_id]
                new_start == IF current_start < earliest_valid_start
                             THEN earliest_valid_start
                             ELSE current_start
                new_end == EndDate(new_start, duration)
            IN  CalcLoop(graph, calculation_order, i + 1,
                         [start EXCEPT ![task_id] = new_start],
                         [end EXCEPT ![task_id] = new_end],
                         IF new_start # graph.nodes[task_id].original_start_date
                         THEN Append(updated, [id |-> task_id, start_date |-> new_start])
                         ELSE updated)

\* Variant of calculate_dates that schedules every task with predecessors at
\* its earliest valid start, whatever date it has.
calculate_dates_no_slack(graph, calculation_order) ==
    CalcLoop(graph, calculation_order, 1,
             [t \in DOMAIN graph.nodes |->
                IF Predecessors(graph.edges, t) = {} THEN graph.nodes[t].start_date ELSE 0],
             [t \in DOMAIN graph.nodes |-> graph.nodes[t].start_date],
             <<>>)

calculate_dates(graph, calculation_order) ==
    CalcLoop(graph, calculation_order, 1,
             [t \in DOMAIN graph.nodes |-> graph.nodes[t].start_date],
             [t \in DOMAIN graph.nodes |-> graph.nodes[t].start_date],
             <<>>)

\* A guard that treats a job whose root row is gone as a stale job.
recalc_guard_missing_is_stale(T, root_task_id, version_id) ==
    IF root_task_id \notin DOMAIN T THEN "stale"
    ELSE IF T[root_task_id].calc_version_id # version_id THEN "stale"
    ELSE "current"

\* A guard that lets every job of an existing root through.
recalc_guard_ignore_version(T, root_task_id, version_id) ==
    IF root_task_id \notin DOMAIN T THEN "not_found" ELSE "current"

\* Step 1 of recalc_subtree: the guard on the root row.
recalc_guard(T, root_task_id, version_id) ==
    IF root_task_id \notin DOMAIN T THEN "not_found"
    ELSE IF T[root_task_id].calc_version_id # version_id THEN "stale"
    ELSE "current"

\* Steps 2-4 of recalc_subtree: fetch, sort, compute.  The result is the return
\* status and the list updated_tasks handed to bulk_update_dates.
recalc_compute(T, D, root_task_id, project_id) ==
    LET sub == fetch_subgraph(T, D, root_task_id, project_id)
        graph == build_graph(sub.tasks, sub.dependencies)
        sorted == topological_sort(graph)
    IN  IF DOMAIN sub.tasks = {} THEN [status |-> "no_tasks", updated_tasks |-> <<>>]
        ELSE IF ~sorted.ok THEN [status |-> "cycle", updated_tasks |-> <<>>]
        ELSE LET updated_tasks == calculate_dates(graph, sorted.order)
             IN  IF updated_tasks = <<>>
                 THEN [status |-> "no_change", updated_tasks |-> <<>>]
                 ELSE [status |-> "updated", updated_tasks |-> updated_tasks]

\* A bulk update that also gives every task it writes a new calc_version_id.
bulk_update_dates_new_version(T, updated_tasks) ==
    [t \in DOMAIN T |->
       IF \E i \in 1..Len(updated_tasks) : updated_tasks[i].id = t
       THEN LET i == CHOOSE k \in 1..Len(updated_tasks) : updated_tasks[k].id = t
            IN  [T[t] EXCEPT !.start_date = updated_tasks[i].start_date,
                             !.calc_version_id = Token(t, 0)]
       ELSE T[t]]

\* A bulk update that writes the first entry of the list only.
bulk_update_dates_first_only(T, updated_tasks) ==
    IF updated_tasks = <<>> THEN T
    ELSE LET u == Head(updated_tasks)
         IN  IF u.id \in DOMAIN T THEN [T EXCEPT ![u.id].start_date = u.start_date] ELSE T

\* bulk_update_dates: session.get each task; a row that is gone is skipped; only
\* start_date (and updated_at) is assigned.
RECURSIVE bulk_update_dates(_, _)
bulk_update_dates(T, updated_tasks) ==
    IF updated_tasks = <<>> THEN T
    ELSE LET u == Head(updated_tasks)
             T1 == IF u.id \in DOMAIN T
                   THEN [T EXCEPT ![u.id].start_date = u.start_date]
                   ELSE T
         IN  bulk_update_dates(T1, Tail(updated_tasks))

\* recalc_subtree run from the guard to the commit with nothing interleaved.
recalc_subtree(T, D, root_task_id, version_id) ==
    IF recalc_guard(T, root_task_id, version_id) # "current" THEN T
    ELSE bulk_update_dates(T,
           recalc_compute(T, D, root_task_id, T[root_task_id].project_id).updated_tasks)

\* The message recalc_subtree returns, by its case.
recalc_status(T, D, root_task_id, version_id) ==
    IF recalc_guard(T, root_task_id, version_id) # "current"
    THEN recalc_guard(T, root_task_id, version_id)
    ELSE recalc_compute(T, D, root_task_id, T[root_task_id].project_id).status

\* ------------------------------------------------ app/services/simulation.py
\* A change set: task id -> [start_date, duration_days], each column a set that
\* is empty when the TaskChange leaves it None (changes_map keeps one change
\* per task id).
\* Variant of ChangedValue that tests the changed value for truth, so that a
\* change to 0 is taken as no change.
ChangedValue_truthy(changes, task_id, column, stored) ==
    IF /\ task_id \in DOMAIN changes
       /\ changes[task_id][column] # {}
       /\ changes[task_id][column] # {0}
    THEN CHOOSE v \in changes[task_id][column] : TRUE
    ELSE stored

ChangedValue(changes, task_id, column, stored) ==
    IF task_id \in DOMAIN changes /\ changes[task_id][column] # {}
    THEN CHOOSE v \in changes[task_id][column] : TRUE
    ELSE stored

\* A forward pass that puts every task with predecessors at its earliest start
\* unless the change set asks for a later date.
RECURSIVE SimLoop_earliest(_, _, _, _, _, _)
SimLoop_earliest(graph, changes, topo_order, i, start, end) ==
    IF i > Len(topo_order) THEN [start_date |-> start, end_date |-> end]
    ELSE
      LET task_id == topo_order[i]
          predecessors == Predecessors(graph.edges, task_id)
          earliest_start == Max({end[p] : p \in predecessors}) + 1
          requested == IF task_id \in DOMAIN changes THEN changes[task_id].start_date ELSE {}
          new_start ==
              IF predecessors = {} THEN start[task_id]
              ELSE Max({earliest_start} \cup requested)
          new_end == EndDate(new_start, graph.nodes[task_id].duration_days)
      IN  SimLoop_earliest(graph, changes, topo_order, i + 1,
                           [start EXCEPT ![task_id] = new_start],
                           [end EXCEPT ![task_id] = new_end])

\* The forward pass of simulate_changes for the i-th task of topo_order.
\* start, end: the node attributes start_date and end_date so far.
RECURSIVE SimLoop(_, _, _, _, _, _)
SimLoop(graph, changes, topo_order, i, start, end) ==
    IF i > Len(topo_order) THEN [start_date |-> start, end_date |-> end]
    ELSE
      LET task_id == topo_order[i]
          predecessors == Predecessors(graph.edges, task_id)
          earliest_start == Max({end[p] : p \in predecessors}) + 1
          requested == IF task_id \in DOMAIN changes THEN changes[task_id].start_date ELSE {}
          new_start ==
              IF predecessors = {} THEN start[task_id]
              ELSE IF requested # {}
                   THEN LET r == CHOOSE v \in requested : TRUE
                        IN  IF r >= earliest_start THEN r ELSE earliest_start
                   ELSE Max({start[task_id], earliest_start})
          new_end == EndDate(new_start, graph.nodes[task_id].duration_days)
      IN  SimLoop(graph, changes, topo_order, i + 1,
                  [start EXCEPT ![task_id] = new_start],
                  [end EXCEPT ![task_id] = new_end])

\* Variant of simulate_changes that lists every task whose start or end moved.
simulate_changes_listing_moved_starts(T, D, project_id, changes) ==
    LET task_ids == {t \in DOMAIN T : T[t].project_id = project_id}
        dependencies == {e \in Edges(D) : e[1] \in task_ids /\ e[2] \in task_ids}
        graph == [nodes |-> [t \in task_ids |->
                     [duration_days |-> ChangedValue(changes, t, "duration_days", T[t].duration_days),
                      start_date |-> ChangedValue(changes, t, "start_date", T[t].start_date),
                      original_start |-> T[t].start_date,
                      original_end |-> EndDate(T[t].start_date, T[t].duration_days)]],
                  edges |-> dependencies]
        sorted == topological_sort(graph)
        walk == SimLoop(graph, changes, sorted.order, 1,
                        [t \in task_ids |-> graph.nodes[t].start_date],
                        [t \in task_ids |-> graph.nodes[t].start_date])
        original_end == Max({graph.nodes[n].original_end : n \in task_ids})
        simulated_end == Max({walk.end_date[n] : n \in task_ids})
    IN  IF task_ids = {} \/ ~sorted.ok THEN [ok |-> FALSE]
        ELSE [ok |-> TRUE,
              start_date |-> walk.start_date,
              end_date |-> walk.end_date,
              original_end_date |-> original_end,
              simulated_end_date |-> simulated_end,
              impact_days |-> simulated_end - original_end,
              affected_tasks |-> SelectSeq(sorted.order,
                                    LAMBDA n : \/ walk.end_date[n] # graph.nodes[n].original_end
                                               \/ walk.start_date[n] # graph.nodes[n].original_start),
              total_tasks |-> Cardinality(task_ids)]

\* simulate_changes: ok = FALSE stands for the ValueError (no tasks, or a cycle).
simulate_changes(T, D, project_id, changes) ==
    LET task_ids == {t \in DOMAIN T : T[t].project_id = project_id}
        dependencies == {e \in Edges(D) : e[1] \in task_ids /\ e[2] \in task_ids}
        graph == [nodes |-> [t \in task_ids |->
                     [duration_days |-> ChangedValue(changes, t, "duration_days", T[t].duration_days),
                      start_date |-> ChangedValue(changes, t, "start_date", T[t].start_date),
                      original_start |-> T[t].start_date,
                      original_end |-> EndDate(T[t].start_date, T[t].duration_days)]],
                  edges |-> dependencies]
        sorted == topological_sort(graph)
        walk == SimLoop(graph, changes, sorted.order, 1,
                        [t \in task_ids |-> graph.nodes[t].start_date],
                        [t \in task_ids |-> graph.nodes[t].start_date])
        original_end == Max({graph.nodes[n].original_end : n \in task_ids})
        simulated_end == Max({walk.end_date[n] : n \in task_ids})
    IN  IF task_ids = {} \/ ~sorted.ok THEN [ok |-> FALSE]
        ELSE [ok |-> TRUE,
              start_date |-> walk.start_date,
              end_date |-> walk.end_date,
              original_end_date |-> original_end,
              simulated_end_date |-> simulated_end,
              impact_days |-> simulated_end - original_end,
              affected_tasks |-> SelectSeq(sorted.order,
                                    LAMBDA n : walk.end_date[n] # graph.nodes[n].original_end),
              total_tasks |-> Cardinality(task_ids)]

\* --------------------------------------------- app/services/critical_path.py
Min(S) == CHOOSE x \in S : \A y \in S : x <= y

Reverse(seq) == [i \in 1..Len(seq) |-> seq[Len(seq) + 1 - i]]

\* A forward pass that takes every task's stored start date as its earliest
\* start.
ForwardPass_stored_starts(graph, topo_order, i, es, ef) ==
    [es |-> [n \in DOMAIN graph.nodes |-> graph.nodes[n].start_date],
     ef |-> [n \in DOMAIN graph.nodes |->
               IF graph.nodes[n].duration_days = 0 THEN graph.nodes[n].start_date
               ELSE graph.nodes[n].start_date + (graph.nodes[n].duration_days - 1)]]

\* Forward pass of _calculate_cpm for the i-th task of topo_order.
\* es, ef: the node attributes 'es' and 'ef' so far.
RECURSIVE ForwardPass(_, _, _, _, _)
ForwardPass(graph, topo_order, i, es, ef) ==
    IF i > Len(topo_order) THEN [es |-> es, ef |-> ef]
    ELSE
      LET node_id == topo_order[i]
          node == graph.nodes[node_id]
          predecessors == Predecessors(graph.edges, node_id)
          node_es == IF predecessors = {} THEN node.start_date
                     ELSE Max({ef[q] : q \in predecessors}) + 1
          node_ef == IF node.duration_days = 0 THEN node_es
                     ELSE node_es + (node.duration_days - 1)
      IN  ForwardPass(graph, topo_order, i + 1,
                      [es EXCEPT ![node_id] = node_es], [ef EXCEPT ![node_id] = node_ef])

\* Variant of BackwardPass that gives every task the project end date as its
\* latest finish.
BackwardPass_all_end_at_project_end(graph, reversed_order, i, project_end_date, ls, lf) ==
    [ls |-> [n \in DOMAIN graph.nodes |->
               IF graph.nodes[n].duration_days = 0 THEN project_end_date
               ELSE project_end_date - (graph.nodes[n].duration_days - 1)],
     lf |-> [n \in DOMAIN graph.nodes |-> project_end_date]]

\* Backward pass of _calculate_cpm for the i-th task of reversed(topo_order).
\* ls, lf: the node attributes 'ls' and 'lf' so far.
RECURSIVE BackwardPass(_, _, _, _, _, _)
BackwardPass(graph, reversed_order, i, project_end_date, ls, lf) ==
    IF i > Len(reversed_order) THEN [ls |-> ls, lf |-> lf]
    ELSE
      LET node_id == reversed_order[i]
          node == graph.nodes[node_id]
          successors == Successors(graph.edges, {node_id})
          node_lf == IF successors = {} THEN project_end_date
                     ELSE Min({ls[x] : x \in successors}) - 1
          node_ls == IF node.duration_days = 0 THEN node_lf
                     ELSE node_lf - (node.duration_days - 1)
      IN  BackwardPass(graph, reversed_order, i + 1, project_end_date,
                       [ls EXCEPT ![node_id] = node_ls], [lf EXCEPT ![node_id] = node_lf])

\* _calculate_cpm: result "ValueError" when the graph has a cycle; otherwise
\* the ProjectAnalysis, task_analyses and critical_path_task_ids in
\* topological order.
calculate_cpm(graph, project_id) ==
    LET sorted == topological_sort(graph)
        topo_order == sorted.order
        ids == DOMAIN graph.nodes
        forward == ForwardPass(graph, topo_order, 1, [n \in ids |-> 0], [n \in ids |-> 0])
        project_end_date == Max({forward.ef[n] : n \in ids})
        backward == BackwardPass(graph, Reverse(topo_order), 1, project_end_date,
                                 [n \in ids |-> 0], [n \in ids |-> 0])
        task_analyses ==
            [i \in 1..Len(topo_order) |->
               LET n == topo_order[i]
                   slack == backward.ls[n] - forward.es[n]
               IN  [task_id |-> n,
                    duration_days |-> graph.nodes[n].duration_days,
                    earliest_start |-> forward.es[n],
                    earliest_finish |-> forward.ef[n],
                    latest_start |-> backward.ls[n],
                    latest_finish |-> backward.lf[n],
                    total_slack |-> slack,
                    is_critical |-> (slack = 0)]]
    IN  IF ~sorted.ok THEN [result |-> "ValueError"]
        ELSE [result |-> "ok",
              project_id |-> project_id,
              project_end_date |-> project_end_date,
              task_analyses |-> task_analyses,
              critical_path_task_ids |->
                  SelectSeq(topo_order,
                            LAMBDA n : backward.ls[n] - forward.es[n] = 0)]

\* analyze_critical_path: result "None" when the project has no task.
analyze_critical_path(T, D, project_id) ==
    LET task_ids == {t \in DOMAIN T : T[t].project_id = project_id}
        dependencies == {e \in Edges(D) : e[1] \in task_ids /\ e[2] \in task_ids}
        graph == [nodes |-> [t \in task_ids |->
                               [duration_days |-> T[t].duration_days,
                                start_date |-> T[t].start_date]],
                  edges |-> dependencies]
    IN  IF task_ids = {} THEN [result |-> "None"]
        ELSE calculate_cpm(graph, project_id)

\* ------------------------------------------------------- sessions and writes
\* What a session has flushed: rows to insert, columns to update (a column is a
\* set: empty when the UPDATE leaves it alone, {v} when it assigns v), rows to
\* delete.
NoWrites ==
    [ins |-> EmptyFn, upd |-> EmptyFn, del_tasks |-> {},
     add_deps |-> {}, del_deps |-> {}, del_projects |-> {}]

NoCols == [start_date |-> {}, duration_days |-> {}, calc_version_id |-> {}]

\* task.calc_version_id = new_version_id on one more row of the session
SetVersion(upd, t, version) ==
    [x \in DOMAIN upd \cup {t} |->
        IF x = t
        THEN [(IF t \in DOMAIN upd THEN upd[t] ELSE NoCols) EXCEPT !.calc_version_id = {version}]
        ELSE upd[x]]

\* Variant of UpdateRow that keeps whichever version was generated last.
UpdateRow_latest_generated(row, cols) ==
    [project_id |-> row.project_id,
     start_date |-> IF cols.start_date = {} THEN row.start_date
                    ELSE CHOOSE v \in cols.start_date : TRUE,
     duration_days |-> IF cols.duration_days = {} THEN row.duration_days
                       ELSE CHOOSE v \in cols.duration_days : TRUE,
     calc_version_id |-> IF cols.calc_version_id = {} THEN row.calc_version_id
                         ELSE LET v == CHOOSE x \in cols.calc_version_id : TRUE
                              IN  IF v[2] > row.calc_version_id[2] THEN v
                                  ELSE row.calc_version_id]

UpdateRow(row, cols) ==
    [project_id |-> row.project_id,
     start_date |-> IF cols.start_date = {} THEN row.start_date
                    ELSE CHOOSE v \in cols.start_date : TRUE,
     duration_days |-> IF cols.duration_days = {} THEN row.duration_days
                       ELSE CHOOSE v \in cols.duration_days : TRUE,
     calc_version_id |-> IF cols.calc_version_id = {} THEN row.calc_version_id
                         ELSE CHOOSE v \in cols.calc_version_id : TRUE]

\* session.commit() on the tasks table: inserts, updates of rows still there,
\* deletes.
CommitTasks(T, w) ==
    LET ids == (DOMAIN T \cup DOMAIN w.ins) \ w.del_tasks
    IN  [t \in ids |->
            LET row == IF t \in DOMAIN T THEN T[t] ELSE w.ins[t]
            IN  IF t \in DOMAIN w.upd THEN UpdateRow(row, w.upd[t]) ELSE row]

\* Variant of CommitDeps in which deleting a task leaves its dependency rows.
CommitDeps_no_cascade(D, w) ==
    LET kept == {e \in DOMAIN D : e \notin w.del_deps}
        all == kept \cup w.add_deps
    IN  [e \in all |-> (IF e \in kept THEN D[e] ELSE 0) + (IF e \in w.add_deps THEN 1 ELSE 0)]

\* session.commit() on the dependencies table.  Deleting a task removes the
\* dependency rows that reference it ("cascades to dependencies via FK").
CommitDeps(D, w) ==
    LET kept == {e \in DOMAIN D : e \notin w.del_deps
                                  /\ e[1] \notin w.del_tasks /\ e[2] \notin w.del_tasks}
        all == kept \cup w.add_deps
    IN  [e \in all |-> (IF e \in kept THEN D[e] ELSE 0) + (IF e \in w.add_deps THEN 1 ELSE 0)]

CommitProjects(PR, w) == [p \in DOMAIN PR \ w.del_projects |-> PR[p]]

\* What a request handler did before get_session commits or rolls back:
\* result: the response ("ok"/"created" or the error raised);
\* writes: what the session flushed;  jobs: what enqueue_recalc was called with;
\* issued: the uuid4 state after the handler.
Outcome(result, writes, jobs, iss) ==
    [result |-> result, writes |-> writes, jobs |-> jobs, issued |-> iss]

Raised(result, iss) == Outcome(result, NoWrites, {}, iss)

Succeeded(out) == out.result \in {"ok", "created", "deleted"}

\* check_task_ownership / the inline ownership checks: 403 unless the project
\* row exists and is owned by the caller.
Owns(PR, user, project_id) ==
    project_id \in DOMAIN PR /\ PR[project_id].owner_id = user

\* ------------------------------------------------- app/routes/dependencies.py
\* Variant of create_dependency without the self-loop test.
create_dependency_no_self_check(PR, T, D, iss, user, p, s) ==
    IF p \notin DOMAIN T THEN Raised("NotFound", iss)
    ELSE IF s \notin DOMAIN T THEN Raised("NotFound", iss)
    ELSE IF ~Owns(PR, user, T[p].project_id) THEN Raised("Forbidden", iss)
    ELSE IF T[p].project_id # T[s].project_id THEN Raised("CrossProject", iss)
    ELSE IF BagIn(<<p, s>>, D) THEN Raised("Duplicate", iss)
    ELSE IF detect_cycle(T, D, T[p].project_id, p, s) THEN Raised("CycleDetected", iss)
    ELSE LET new_version_id == Token(s, iss[s] + 1)
         IN  Outcome("created",
                     [NoWrites EXCEPT !.add_deps = {<<p, s>>},
                                      !.upd = SetVersion(EmptyFn, s, new_version_id)],
                     {Job(s, new_version_id)},
                     [iss EXCEPT ![s] = @ + 1])

\* Variant of create_dependency that bumps the successor's version and enqueues
\* the job before running cycle detection.
create_dependency_enqueue_first(PR, T, D, iss, user, p, s) ==
    IF p \notin DOMAIN T THEN Raised("NotFound", iss)
    ELSE IF s \notin DOMAIN T THEN Raised("NotFound", iss)
    ELSE IF ~Owns(PR, user, T[p].project_id) THEN Raised("Forbidden", iss)
    ELSE IF T[p].project_id # T[s].project_id THEN Raised("CrossProject", iss)
    ELSE IF BagIn(<<p, s>>, D) THEN Raised("Duplicate", iss)
    ELSE IF p = s THEN Raised("SelfDependency", iss)
    ELSE LET new_version_id == Token(s, iss[s] + 1)
             has_cycle == detect_cycle(T, D, T[p].project_id, p, s)
         IN  Outcome(IF has_cycle THEN "CycleDetected" ELSE "created",
                     [NoWrites EXCEPT !.add_deps = {<<p, s>>},
                                      !.upd = SetVersion(EmptyFn, s, new_version_id)],
                     {Job(s, new_version_id)},
                     [iss EXCEPT ![s] = @ + 1])

\* Variant of create_dependency that bumps the predecessor instead of the
\* successor.
create_dependency_bump_predecessor(PR, T, D, iss, user, p, s) ==
    IF p \notin DOMAIN T THEN Raised("NotFound", iss)
    ELSE IF s \notin DOMAIN T THEN Raised("NotFound", iss)
    ELSE IF ~Owns(PR, user, T[p].project_id) THEN Raised("Forbidden", iss)
    ELSE IF T[p].project_id # T[s].project_id THEN Raised("CrossProject", iss)
    ELSE IF BagIn(<<p, s>>, D) THEN Raised("Duplicate", iss)
    ELSE IF p = s THEN Raised("SelfDependency", iss)
    ELSE IF detect_cycle(T, D, T[p].project_id, p, s) THEN Raised("CycleDetected", iss)
    ELSE LET new_version_id == Token(p, iss[p] + 1)
         IN  Outcome("created",
                     [NoWrites EXCEPT !.add_deps = {<<p, s>>},
                                      !.upd = SetVersion(EmptyFn, p, new_version_id)],
                     {Job(p, new_version_id)},
                     [iss EXCEPT ![p] = @ + 1])

create_dependency(PR, T, D, iss, user, p, s) ==
    IF p \notin DOMAIN T THEN Raised("NotFound", iss)
    ELSE IF s \notin DOMAIN T THEN Raised("NotFound", iss)
    ELSE IF ~Owns(PR, user, T[p].project_id) THEN Raised("Forbidden", iss)
    ELSE IF T[p].project_id # T[s].project_id THEN Raised("CrossProject", iss)
    ELSE IF BagIn(<<p, s>>, D) THEN Raised("Duplicate", iss)
    ELSE IF p = s THEN Raised("SelfDependency", iss)
    ELSE IF detect_cycle(T, D, T[p].project_id, p, s) THEN Raised("CycleDetected", iss)
    ELSE LET new_version_id == Token(s, iss[s] + 1)
         IN  Outcome("created",
                     [NoWrites EXCEPT !.add_deps = {<<p, s>>},
                                      !.upd = SetVersion(EmptyFn, s, new_version_id)],
                     {Job(s, new_version_id)},
                     [iss EXCEPT ![s] = @ + 1])

\* Variant of delete_dependency that treats a missing edge as already deleted
\* and still renews and enqueues the successor.
delete_dependency_idempotent(PR, T, D, iss, user, p, s) ==
    IF p \notin DOMAIN T THEN Raised("NotFound", iss)
    ELSE IF ~Owns(PR, user, T[p].project_id) THEN Raised("Forbidden", iss)
    ELSE IF s \notin DOMAIN T
         THEN Outcome("deleted", [NoWrites EXCEPT !.del_deps = {<<p, s>>}], {}, iss)
    ELSE LET new_version_id == Token(s, iss[s] + 1)
         IN  Outcome("deleted",
                     [NoWrites EXCEPT !.del_deps = {<<p, s>>},
                                      !.upd = SetVersion(EmptyFn, s, new_version_id)],
                     {Job(s, new_version_id)},
                     [iss EXCEPT ![s] = @ + 1])

delete_dependency(PR, T, D, iss, user, p, s) ==
    IF ~BagIn(<<p, s>>, D) THEN Raised("NotFound", iss)
    ELSE IF p \notin DOMAIN T THEN Raised("NotFound", iss)
    ELSE IF ~Owns(PR, user, T[p].project_id) THEN Raised("Forbidden", iss)
    ELSE IF s \notin DOMAIN T
         THEN Outcome("deleted", [NoWrites EXCEPT !.del_deps = {<<p, s>>}], {}, iss)
    ELSE LET new_version_id == Token(s, iss[s] + 1)
         IN  Outcome("deleted",
                     [NoWrites EXCEPT !.del_deps = {<<p, s>>},
                                      !.upd = SetVersion(EmptyFn, s, new_version_id)],
                     {Job(s, new_version_id)},
                     [iss EXCEPT ![s] = @ + 1])

\* ------------------------------------------------------- app/routes/tasks.py
\* create_task: task_id is the uuid4 primary key, calc_version_id the uuid4
\* default of the row.
create_task(PR, T, iss, user, task_id, project_id, start_date, duration_days) ==
    IF project_id \notin DOMAIN PR THEN Raised("NotFound", iss)
    ELSE IF PR[project_id].owner_id # user THEN Raised("Forbidden", iss)
    ELSE Outcome("created",
                 [NoWrites EXCEPT !.ins =
                    [x \in {task_id} |->
                       [project_id |-> project_id, start_date |-> start_date,
                        duration_days |-> duration_days,
                        calc_version_id |-> Token(task_id, iss[task_id] + 1)]]],
                 {},
                 [iss EXCEPT ![task_id] = @ + 1])

\* Variant of update_task that renews the version and enqueues a job only when
\* the request sets a scheduling field.
update_task_schedule_fields_only(PR, T, iss, user, task_id, start_date, duration_days) ==
    IF task_id \notin DOMAIN T THEN Raised("NotFound", iss)
    ELSE IF ~Owns(PR, user, T[task_id].project_id) THEN Raised("Forbidden", iss)
    ELSE IF start_date = {} /\ duration_days = {} THEN Outcome("ok", NoWrites, {}, iss)
    ELSE LET new_version_id == Token(task_id, iss[task_id] + 1)
         IN  Outcome("ok",
                     [NoWrites EXCEPT !.upd =
                        [x \in {task_id} |->
                           [start_date |-> start_date, duration_days |-> duration_days,
                            calc_version_id |-> {new_version_id}]]],
                     {Job(task_id, new_version_id)},
                     [iss EXCEPT ![task_id] = @ + 1])

\* update_task: update_data holds the fields the request set (start_date and
\* duration_days are sets: empty when the field is unset).
update_task(PR, T, iss, user, task_id, start_date, duration_days) ==
    IF task_id \notin DOMAIN T THEN Raised("NotFound", iss)
    ELSE IF ~Owns(PR, user, T[task_id].project_id) THEN Raised("Forbidden", iss)
    ELSE LET new_version_id == Token(task_id, iss[task_id] + 1)
         IN  Outcome("ok",
                     [NoWrites EXCEPT !.upd =
                        [x \in {task_id} |->
                           [start_date |-> start_date, duration_days |-> duration_days,
                            calc_version_id |-> {new_version_id}]]],
                     {Job(task_id, new_version_id)},
                     [iss EXCEPT ![task_id] = @ + 1])

\* The loop of delete_task over successor_ids: one new version and one job per
\* successor whose row is still there after the delete.
RECURSIVE BumpSuccessors(_, _, _)
BumpSuccessors(successor_ids, out, task_id) ==
    IF successor_ids = {} THEN out
    ELSE LET s == CHOOSE x \in successor_ids : TRUE
             new_version_id == Token(s, out.issued[s] + 1)
         IN  IF s = task_id
             THEN BumpSuccessors(successor_ids \ {s}, out, task_id)
             ELSE BumpSuccessors(successor_ids \ {s},
                    Outcome(out.result,
                            [out.writes EXCEPT !.upd = SetVersion(@, s, new_version_id)],
                            out.jobs \cup {Job(s, new_version_id)},
                            [out.issued EXCEPT ![s] = @ + 1]),
                    task_id)

\* Variant of delete_task that also renews and enqueues the direct predecessors.
delete_task_with_predecessors(PR, T, D, iss, user, task_id) ==
    IF task_id \notin DOMAIN T THEN Raised("NotFound", iss)
    ELSE IF ~Owns(PR, user, T[task_id].project_id) THEN Raised("Forbidden", iss)
    ELSE LET neighbour_ids == (Successors(Edges(D), {task_id})
                                 \cup Predecessors(Edges(D), task_id)) \cap DOMAIN T
         IN  BumpSuccessors(neighbour_ids,
                            Outcome("deleted", [NoWrites EXCEPT !.del_tasks = {task_id}], {}, iss),
                            task_id)

delete_task(PR, T, D, iss, user, task_id) ==
    IF task_id \notin DOMAIN T THEN Raised("NotFound", iss)
    ELSE IF ~Owns(PR, user, T[task_id].project_id) THEN Raised("Forbidden", iss)
    ELSE LET successor_ids == (Successors(Edges(D), {task_id})) \cap DOMAIN T
         IN  BumpSuccessors(successor_ids,
                            Outcome("deleted", [NoWrites EXCEPT !.del_tasks = {task_id}], {}, iss),
                            task_id)

\* ----------------------------------------------------- app/routes/projects.py
delete_project(PR, T, D, iss, user, project_id) ==
    IF project_id \notin DOMAIN PR THEN Raised("NotFound", iss)
    ELSE IF PR[project_id].owner_id # user THEN Raised("Forbidden", iss)
    ELSE LET task_ids == {t \in DOMAIN T : T[t].project_id = project_id}
         IN  Outcome("deleted",
                     [NoWrites EXCEPT
                        !.del_deps = {e \in Edges(D) : e[1] \in task_ids \/ e[2] \in task_ids},
                        !.del_tasks = task_ids,
                        !.del_projects = {project_id}],
                     {}, iss)

\* Variant of simulate_project_changes that stores the simulated start dates.
simulate_project_changes_persisting(PR, T, D, iss, user, project_id, changes) ==
    IF project_id \notin DOMAIN PR THEN Raised("NotFound", iss)
    ELSE IF PR[project_id].owner_id # user THEN Raised("Forbidden", iss)
    ELSE LET result == simulate_changes(T, D, project_id, changes)
         IN  IF ~result.ok THEN Raised("ValueError", iss)
             ELSE Outcome("ok",
                          [NoWrites EXCEPT !.upd =
                              [t \in DOMAIN result.start_date |->
                                  [NoCols EXCEPT !.start_date = {result.start_date[t]}]]],
                          {}, iss)

\* simulate_project_changes: the session only reads; nothing is assigned to a
\* mapped row and enqueue_recalc is not called.
simulate_project_changes(PR, T, D, iss, user, project_id, changes) ==
    IF project_id \notin DOMAIN PR THEN Raised("NotFound", iss)
    ELSE IF PR[project_id].owner_id # user THEN Raised("Forbidden", iss)
    ELSE IF ~simulate_changes(T, D, project_id, changes).ok THEN Raised("ValueError", iss)
    ELSE Outcome("ok", NoWrites, {}, iss)

\* GET /projects/{project_id}/critical-path
get_critical_path(PR, T, D, user, project_id) ==
    IF project_id \notin DOMAIN PR THEN [result |-> "NotFound"]
    ELSE IF PR[project_id].owner_id # user THEN [result |-> "Forbidden"]
    ELSE LET analysis == analyze_critical_path(T, D, project_id)
         IN  IF analysis.result = "None" THEN [result |-> "NotFound"]
             ELSE analysis

\* --------------------------------------------------- app/schemas/task.py
\* An end date that counts the start day out.
TaskRead_end_date_exclusive(row) == row.start_date + row.duration_days

\* TaskRead.end_date, the computed field of the task read model.
TaskRead_end_date(row) ==
    IF row.duration_days = 0 THEN row.start_date
    ELSE row.start_date + (row.duration_days - 1)

\* TaskRead built from a row (from_attributes).
TaskRead(task_id, row) ==
    [id |-> task_id, start_date |-> row.start_date, duration_days |-> row.duration_days,
     calc_version_id |-> row.calc_version_id, project_id |-> row.project_id,
     end_date |-> TaskRead_end_date(row)]

\* GET /tasks/{task_id}
get_task(PR, T, user, task_id) ==
    IF task_id \notin DOMAIN T THEN [result |-> "NotFound"]
    ELSE IF ~Owns(PR, user, T[task_id].project_id) THEN [result |-> "Forbidden"]
    ELSE [result |-> "ok", task |-> TaskRead(task_id, T[task_id])]

\* A project status that reports the earliest end date among the tasks.
get_project_status_earliest_end(PR, T, user, project_id) ==
    IF project_id \notin DOMAIN PR THEN [result |-> "NotFound"]
    ELSE IF PR[project_id].owner_id # user THEN [result |-> "Forbidden"]
    ELSE LET tasks_data == {t \in DOMAIN T : T[t].project_id = project_id}
             end_dates == {EndDate(T[t].start_date, T[t].duration_days) : t \in tasks_data}
         IN  [result |-> "ok", project_id |-> project_id, deadline |-> {},
              projected_end_date |-> IF tasks_data = {} THEN {} ELSE {Min(end_dates)},
              task_count |-> Cardinality(tasks_data),
              is_over_deadline |-> FALSE, days_over |-> {}]

\* GET /projects/{project_id}/status.  deadline, projected_end_date and
\* days_over are empty sets when None.
get_project_status(PR, T, user, project_id) ==
    IF project_id \notin DOMAIN PR THEN [result |-> "NotFound"]
    ELSE IF PR[project_id].owner_id # user THEN [result |-> "Forbidden"]
    ELSE LET tasks_data == {t \in DOMAIN T : T[t].project_id = project_id}
             end_dates == {IF T[t].duration_days = 0 THEN T[t].start_date
                           ELSE T[t].start_date + (T[t].duration_days - 1) : t \in tasks_data}
             projected_end_date == IF tasks_data = {} THEN {} ELSE {Max(end_dates)}
             deadline == PR[project_id].deadline
             delta == {e - d : e \in projected_end_date, d \in deadline}
         IN  [result |-> "ok", project_id |-> project_id, deadline |-> deadline,
              projected_end_date |-> projected_end_date,
              task_count |-> Cardinality(tasks_data),
              is_over_deadline |-> \E x \in delta : x > 0,
              days_over |-> delta]

\* -------------------------------------------------------------------- Init
IdleTxn == [pc |-> "idle", writes |-> NoWrites]

\* No read-only endpoint has answered yet.
NoResponse == [endpoint |-> "none"]

IdleWrk == [pc |-> "idle", root_id |-> "", project_id |-> "", updated_tasks |-> <<>>,
            written |-> 0]

\* s.start_date >= p.end_date + 1 on every dependency row whose tasks exist
Precedence(T, D) ==
    \A e \in Edges(D) :
        (e[1] \in DOMAIN T /\ e[2] \in DOMAIN T)
            => T[e[2]].start_date >= EndDate(T[e[1]].start_date, T[e[1]].duration_days) + 1

\* Two projects with their owners; tasks A, B, C created in project P with any
\* start date and duration; any of the dependencies A->B, B->C, A->C that the
\* dates satisfy (a schedule whose cascades have drained); D not created yet;
\* nothing queued.
Init ==
    /\ projects = [p \in ProjectIds |-> [owner_id |-> IF p = "P" THEN "u1" ELSE "u2"]]
    /\ tasks \in [{"A", "B", "C"} ->
                    [project_id : {"P"}, start_date : Dates, duration_days : Durations,
                     calc_version_id : {Token(t, 1) : t \in TaskIds}]]
    /\ \A t \in DOMAIN tasks : tasks[t].calc_version_id = Token(t, 1)
    /\ deps \in {SetToBag(S) : S \in SUBSET {<<"A", "B">>, <<"B", "C">>, <<"A", "C">>}}
    /\ Precedence(tasks, deps)
    /\ queue = {}
    /\ issued = [t \in TaskIds |-> IF t = "D" THEN 0 ELSE 1]
    /\ txn = [h \in Handlers |-> IdleTxn]
    /\ wrk = [w \in Workers |-> IdleWrk]
    /\ discarded = {}
    /\ expected = EmptyFn
    /\ proposed = EmptyFn
    /\ response = NoResponse

\* ------------------------------------------- requests served one at a time
\* A request handler run from its first read to the commit or rollback of
\* get_session, with nothing interleaved.  Jobs are enqueued by the handler
\* itself; the tables change only if the handler raised nothing.
Respond(out) ==
    /\ TotalIssued(out.issued) <= MaxTokens
    /\ issued' = out.issued
    /\ queue' = queue \cup out.jobs
    /\ IF Succeeded(out)
       THEN /\ tasks' = CommitTasks(tasks, out.writes)
            /\ deps' = CommitDeps(deps, out.writes)
            /\ projects' = CommitProjects(projects, out.writes)
       ELSE UNCHANGED <<tasks, deps, projects>>
    /\ UNCHANGED <<txn, wrk, discarded>>

Serve(out) == Respond(out) /\ UNCHANGED <<expected, proposed, response>>

CreateTask(user, t, project_id, start_date, duration_days) ==
    /\ issued[t] = 0
    /\ Serve(create_task(projects, tasks, issued, user, t, project_id, start_date, duration_days))

UpdateTask(user, t, start_date, duration_days) ==
    Serve(update_task(projects, tasks, issued, user, t, start_date, duration_days))

DeleteTask(user, t) ==
    Serve(delete_task(projects, tasks, deps, issued, user, t))

CreateDependency(user, p, s) ==
    Serve(create_dependency(projects, tasks, deps, issued, user, p, s))

DeleteDependency(user, p, s) ==
    Serve(delete_dependency(projects, tasks, deps, issued, user, p, s))

DeleteProject(user, project_id) ==
    Serve(delete_project(projects, tasks, deps, issued, user, project_id))

\* A worker takes a job and runs recalc_subtree to its commit.
RunJob(j) ==
    /\ j \in queue
    /\ queue' = queue \ {j}
    /\ tasks' = recalc_subtree(tasks, deps, j.task_id, j.version_id)
    /\ discarded' = IF recalc_guard(tasks, j.task_id, j.version_id) = "stale"
                    THEN discarded \cup {j} ELSE discarded
    /\ UNCHANGED <<projects, deps, issued, txn, wrk, expected, proposed, response>>

OptDates == {{}} \cup {{d} : d \in Dates}
OptDurations == {{}} \cup {{d} : d \in Durations}

\* The schedule-changing mutations (task update, task delete, edge create,
\* edge delete), requested by the owner of project P.
MutationSeq ==
    \/ \E t \in TaskIds, d \in OptDates, n \in OptDurations : UpdateTask("u1", t, d, n)
    \/ \E t \in TaskIds : DeleteTask("u1", t)
    \/ \E p \in TaskIds, s \in TaskIds : CreateDependency("u1", p, s)
    \/ \E p \in TaskIds, s \in TaskIds : DeleteDependency("u1", p, s)

\* One mutation at a time: the next request is served only after every job of
\* the previous one has run.
NextSeq ==
    \/ queue = {} /\ MutationSeq
    \/ \E j \in queue : RunJob(j)

SpecSeq == Init /\ [][NextSeq]_vars

\* ------------------------------------------- requests and jobs in any order
\* Tasks A, B, C of project P on consecutive days with any of the dependencies
\* A->B, B->C, A->C; D not created yet.
InitApi ==
    /\ projects = [p \in ProjectIds |-> [owner_id |-> IF p = "P" THEN "u1" ELSE "u2"]]
    /\ tasks = [t \in {"A", "B", "C"} |->
                  [project_id |-> "P",
                   start_date |-> IF t = "A" THEN 0 ELSE IF t = "B" THEN 1 ELSE 2,
                   duration_days |-> 1,
                   calc_version_id |-> Token(t, 1)]]
    /\ deps \in {SetToBag(S) : S \in SUBSET {<<"A", "B">>, <<"B", "C">>, <<"A", "C">>}}
    /\ queue = {}
    /\ issued = [t \in TaskIds |-> IF t = "D" THEN 0 ELSE 1]
    /\ txn = [h \in Handlers |-> IdleTxn]
    /\ wrk = [w \in Workers |-> IdleWrk]
    /\ discarded = {}
    /\ expected = EmptyFn
    /\ proposed = EmptyFn
    /\ response = NoResponse

\* Every mutating endpoint, called by either user, served one request at a time
\* but with jobs left waiting in the queue between requests.
NextApi ==
    \/ \E u \in Users, t \in TaskIds, p \in ProjectIds : CreateTask(u, t, p, MaxDate, 0)
    \/ \E u \in Users, t \in TaskIds, d \in {{}, {0}}, n \in {{}, {2}} : UpdateTask(u, t, d, n)
    \/ \E u \in Users, t \in TaskIds : DeleteTask(u, t)
    \/ \E u \in Users, p \in TaskIds, s \in TaskIds : CreateDependency(u, p, s)
    \/ \E u \in Users, p \in TaskIds, s \in TaskIds : DeleteDependency(u, p, s)
    \/ \E u \in Users, p \in ProjectIds : DeleteProject(u, p)
    \/ \E j \in queue : RunJob(j)

SpecApi == InitApi /\ [][NextApi]_vars

\* --------------------------------------- concurrent handlers and workers
\* Rows of the tasks table a session has updated or deleted and not committed
\* (row locks), and the tasks its inserted or deleted dependency rows reference.
LockedRows(w) == DOMAIN w.upd \cup w.del_tasks

ReferencedRows(w) == {e[1] : e \in w.add_deps \cup w.del_deps}
                     \cup {e[2] : e \in w.add_deps \cup w.del_deps}

\* Two sessions cannot both hold uncommitted writes to the same task row, to
\* the same dependency key, or delete a task that an uncommitted dependency
\* row of the other references: the later statement waits for the commit.
Conflict(w1, w2) ==
    \/ LockedRows(w1) \cap LockedRows(w2) # {}
    \/ (w1.add_deps \cup w1.del_deps) \cap (w2.add_deps \cup w2.del_deps) # {}
    \/ w1.del_tasks \cap ReferencedRows(w2) # {}
    \/ w2.del_tasks \cap ReferencedRows(w1) # {}

Waits(h, w) ==
    \E h2 \in Handlers \ {h} : txn[h2].pc = "flushed" /\ Conflict(w, txn[h2].writes)

\* Requests and jobs go to the first free slot of their pool.
FirstIdle(pool, slots) ==
    IF \E x \in pool : slots[x].pc = "idle"
    THEN CHOOSE x \in pool : slots[x].pc = "idle" /\ \A y \in pool : slots[y].pc = "idle" => x <= y
    ELSE 0

\* Task ids a client can name: those of tasks created so far.
Created == {t \in TaskIds : issued[t] > 0}

\* The body of a request handler, run on the committed state up to its return:
\* the session has flushed its writes, enqueue_recalc has been called, and
\* get_session has not committed yet.  A handler that raised is rolled back.
Execute(h, out) ==
    /\ h = FirstIdle(Handlers, txn)
    /\ TotalIssued(out.issued) <= MaxTokens
    /\ ~Waits(h, out.writes)
    /\ issued' = out.issued
    /\ queue' = queue \cup out.jobs
    /\ txn' = IF Succeeded(out)
              THEN [txn EXCEPT ![h] = [pc |-> "flushed", writes |-> out.writes]]
              ELSE txn
    /\ UNCHANGED <<projects, tasks, deps, wrk, discarded, expected, proposed, response>>

TxUpdateTask(h, user, t, start_date, duration_days) ==
    Execute(h, update_task(projects, tasks, issued, user, t, start_date, duration_days))

TxDeleteTask(h, user, t) ==
    Execute(h, delete_task(projects, tasks, deps, issued, user, t))

TxCreateDependency(h, user, p, s) ==
    Execute(h, create_dependency(projects, tasks, deps, issued, user, p, s))

TxDeleteDependency(h, user, p, s) ==
    Execute(h, delete_dependency(projects, tasks, deps, issued, user, p, s))

\* get_session: await session.commit() after the handler returned.
CommitSession(h) ==
    /\ txn[h].pc = "flushed"
    /\ tasks' = CommitTasks(tasks, txn[h].writes)
    /\ deps' = CommitDeps(deps, txn[h].writes)
    /\ projects' = CommitProjects(projects, txn[h].writes)
    /\ txn' = [txn EXCEPT ![h] = IdleTxn]
    /\ UNCHANGED <<queue, issued, wrk, discarded>>

TxCommit(h) == CommitSession(h) /\ UNCHANGED <<expected, proposed, response>>

\* A pickup that leaves the job in the queue.
WorkerGuard_keep_job(w, j) ==
    /\ w = FirstIdle(Workers, wrk)
    /\ j \in queue
    /\ wrk' = [wrk EXCEPT ![w] = [pc |-> "guarded", root_id |-> j.task_id,
                                  project_id |-> "P", updated_tasks |-> <<>>, written |-> 0]]
    /\ UNCHANGED <<projects, tasks, deps, queue, issued, txn, discarded, expected, proposed,
                   response>>

\* recalc_subtree step 1: a worker slot picks a job up and reads the root row.
WorkerGuard(w, j) ==
    /\ w = FirstIdle(Workers, wrk)
    /\ j \in queue
    /\ queue' = queue \ {j}
    /\ LET g == recalc_guard(tasks, j.task_id, j.version_id)
       IN  /\ wrk' = IF g = "current"
                     THEN [wrk EXCEPT ![w] = [pc |-> "guarded", root_id |-> j.task_id,
                                               project_id |-> tasks[j.task_id].project_id,
                                               updated_tasks |-> <<>>, written |-> 0]]
                     ELSE wrk
           /\ discarded' = IF g = "stale" THEN discarded \cup {j} ELSE discarded
    /\ UNCHANGED <<projects, tasks, deps, issued, txn, expected, proposed, response>>

\* recalc_subtree steps 2-4: read the subgraph as committed now, sort, compute.
WorkerCompute(w) ==
    /\ wrk[w].pc = "guarded"
    /\ LET r == recalc_compute(tasks, deps, wrk[w].root_id, wrk[w].project_id)
       IN  wrk' = IF r.status = "updated"
                  THEN [wrk EXCEPT ![w].pc = "computed", ![w].updated_tasks = r.updated_tasks]
                  ELSE [wrk EXCEPT ![w] = IdleWrk]
    /\ UNCHANGED <<projects, tasks, deps, queue, issued, txn, discarded, expected, proposed, response>>

\* recalc_subtree step 5 and the commit of get_session_context.  The UPDATEs
\* wait while a request session holds a lock on one of the rows.
WorkerWrite(w) ==
    /\ wrk[w].pc = "computed"
    /\ \A h \in Handlers :
          txn[h].pc = "flushed" =>
             {wrk[w].updated_tasks[i].id : i \in 1..Len(wrk[w].updated_tasks)}
                \cap LockedRows(txn[h].writes) = {}
    /\ tasks' = bulk_update_dates(tasks, wrk[w].updated_tasks)
    /\ wrk' = [wrk EXCEPT ![w] = IdleWrk]
    /\ UNCHANGED <<projects, deps, queue, issued, txn, discarded, expected, proposed, response>>

Next ==
    \/ \E h \in Handlers, t \in Created, d \in {{}, {MaxDate}}, n \in {{}, {2}} :
          TxUpdateTask(h, "u1", t, d, n)
    \/ \E h \in Handlers, t \in Created : TxDeleteTask(h, "u1", t)
    \/ \E h \in Handlers, p \in Created, s \in Created : TxCreateDependency(h, "u1", p, s)
    \/ \E h \in Handlers, p \in Created, s \in Created : TxDeleteDependency(h, "u1", p, s)
    \/ \E h \in Handlers : TxCommit(h)
    \/ \E w \in Workers, j \in queue : WorkerGuard(w, j)
    \/ \E w \in Workers : WorkerCompute(w)
    \/ \E w \in Workers : WorkerWrite(w)

Spec == InitApi /\ [][Next]_vars

\* ------------------------------------- rapid updates of one task (scenario S7)
StartDates(T) == [t \in DOMAIN T |-> T[t].start_date]

\* The commit of an update_task request, recording what the job of this
\* mutation computes when it runs alone on the state just committed.
CommitAndRecord(h) ==
    /\ CommitSession(h)
    /\ expected' = LET t == CHOOSE x \in DOMAIN txn[h].writes.upd : TRUE
                   IN  StartDates(recalc_subtree(tasks', deps', t, tasks'[t].calc_version_id))
    /\ UNCHANGED <<proposed, response>>

\* Only update_task requests, interleaved with their commits and the workers.
NextStale ==
    \/ \E h \in Handlers, t \in Created, d \in {{}, {0}, {MaxDate}}, n \in {{}, {2}} :
          TxUpdateTask(h, "u1", t, d, n)
    \/ \E h \in Handlers : CommitAndRecord(h)
    \/ \E w \in Workers, j \in queue : WorkerGuard(w, j)
    \/ \E w \in Workers : WorkerCompute(w)
    \/ \E w \in Workers : WorkerWrite(w)

SpecStale == InitApi /\ [][NextStale]_vars

\* ------------------------------------------------- what-if simulation
\* The change sets a client sends: at most two tasks, each named with nothing
\* set, moved to the earliest date, turned into a milestone, or moved to the
\* latest date with duration 2.
ChangeValues ==
    {[start_date |-> {}, duration_days |-> {}],
     [start_date |-> {0}, duration_days |-> {}],
     [start_date |-> {}, duration_days |-> {0}],
     [start_date |-> {MaxDate}, duration_days |-> {2}]}

ChangeSets ==
    UNION {[S -> ChangeValues] : S \in {X \in SUBSET TaskIds : Cardinality(X) <= 2}}

\* POST /projects/{id}/simulate served from its first read to get_session's commit.
Simulate(user, project_id, changes) ==
    Serve(simulate_project_changes(projects, tasks, deps, issued, user, project_id, changes))

\* A simulation by the owner of P on a drained project, keeping its simulated
\* start dates and the changes of tasks of the project for the round trip.
Propose(changes) ==
    /\ expected = EmptyFn
    /\ queue = {}
    /\ Precedence(tasks, deps)
    /\ LET result == simulate_changes(tasks, deps, "P", changes)
       IN  /\ result.ok
           /\ expected' = result.start_date
           /\ proposed' = [t \in DOMAIN changes \cap DOMAIN result.start_date |-> changes[t]]
    /\ UNCHANGED <<projects, tasks, deps, queue, issued, txn, wrk, discarded, response>>

\* One proposed change sent as PATCH /tasks/{t}.
ApplyChange(t) ==
    /\ t \in DOMAIN proposed
    /\ Respond(update_task(projects, tasks, issued, "u1", t,
                           proposed[t].start_date, proposed[t].duration_days))
    /\ proposed' = [x \in DOMAIN proposed \ {t} |-> proposed[x]]
    /\ UNCHANGED <<expected, response>>

\* Simulations by both users between task updates and cascades.
NextSim ==
    \/ \E u \in Users, p \in ProjectIds, c \in ChangeSets : Simulate(u, p, c)
    \/ \E t \in TaskIds : UpdateTask("u1", t, {}, {}) \/ UpdateTask("u1", t, {MaxDate}, {2})
    \/ \E j \in queue : RunJob(j)

SpecSim == InitApi /\ [][NextSim]_vars

\* A simulation, then its changes applied one by one with cascades in between.
NextRoundTrip ==
    \/ \E c \in ChangeSets : Propose(c)
    \/ \E t \in TaskIds : ApplyChange(t)
    \/ \E j \in queue : RunJob(j)

SpecRoundTrip == InitApi /\ [][NextRoundTrip]_vars

\* ------------------------------------ concurrent updates of the same task
\* update_task up to the flush: the row is read as committed, ownership is
\* checked, the fields are set on the object and the new version is generated;
\* no statement has been sent yet.
TxRead(h, user, t, start_date, duration_days) ==
    /\ h = FirstIdle(Handlers, txn)
    /\ LET out == update_task(projects, tasks, issued, user, t, start_date, duration_days)
       IN  /\ Succeeded(out)
           /\ TotalIssued(out.issued) <= MaxTokens
           /\ issued' = out.issued
           /\ txn' = [txn EXCEPT ![h] = [pc |-> "read", writes |-> out.writes]]
    /\ UNCHANGED <<projects, tasks, deps, queue, wrk, discarded, expected, proposed, response>>

\* session.flush() and enqueue_recalc: the UPDATE waits while another session
\* holds the row; once it has the row the job is enqueued, before the commit.
TxFlush(h) ==
    /\ txn[h].pc = "read"
    /\ ~Waits(h, txn[h].writes)
    /\ txn' = [txn EXCEPT ![h].pc = "flushed"]
    /\ queue' = queue \cup {Job(t, CHOOSE v \in txn[h].writes.upd[t].calc_version_id : TRUE) :
                               t \in DOMAIN txn[h].writes.upd}
    /\ UNCHANGED <<projects, tasks, deps, issued, wrk, discarded, expected, proposed, response>>

NextRace ==
    \/ \E h \in Handlers, t \in Created, d \in {{}, {MaxDate}} : TxRead(h, "u1", t, d, {})
    \/ \E h \in Handlers : TxFlush(h)
    \/ \E h \in Handlers : TxCommit(h)
    \/ \E w \in Workers, j \in queue : WorkerGuard(w, j)
    \/ \E w \in Workers : WorkerCompute(w)
    \/ \E w \in Workers : WorkerWrite(w)

SpecRace == InitApi /\ [][NextRace]_vars

\* ------------------------------------------- the response of a simulation
\* A read-only request: the tables, the queue and the sessions stay as they
\* are and the body of the response is kept.
Answer(endpoint, body) ==
    /\ response' = [endpoint |-> endpoint, body |-> body]
    /\ UNCHANGED <<projects, tasks, deps, queue, issued, txn, wrk, discarded, expected, proposed>>

\* POST /projects/{id}/simulate with the request and the SimulationResult kept
\* (ok = FALSE in the result when the handler raised).
WhatIf(user, project_id, changes) ==
    Answer("simulate",
           [project_id |-> project_id,
            changes |-> changes,
            result |-> IF simulate_project_changes(projects, tasks, deps, issued,
                                                   user, project_id, changes).result = "ok"
                       THEN simulate_changes(tasks, deps, project_id, changes)
                       ELSE [ok |-> FALSE]])

\* Tasks A, B, C of project P with any start date and duration, satisfied or
\* not, and any of the dependencies A->B, B->C, A->C; D does not exist.
InitWalk ==
    /\ projects = [p \in ProjectIds |-> [owner_id |-> IF p = "P" THEN "u1" ELSE "u2"]]
    /\ tasks \in [{"A", "B", "C"} ->
                    [project_id : {"P"}, start_date : Dates, duration_days : Durations,
                     calc_version_id : {Token(t, 1) : t \in TaskIds}]]
    /\ \A t \in DOMAIN tasks : tasks[t].calc_version_id = Token(t, 1)
    /\ deps \in {SetToBag(S) : S \in SUBSET {<<"A", "B">>, <<"B", "C">>, <<"A", "C">>}}
    /\ queue = {}
    /\ issued = [t \in TaskIds |-> IF t = "D" THEN 0 ELSE 1]
    /\ txn = [h \in Handlers |-> IdleTxn]
    /\ wrk = [w \in Workers |-> IdleWrk]
    /\ discarded = {}
    /\ expected = EmptyFn
    /\ proposed = EmptyFn
    /\ response = NoResponse

\* One simulation per schedule.
NextWalk == response = NoResponse /\ \E c \in ChangeSets : WhatIf("u1", "P", c)

SpecWalk == InitWalk /\ [][NextWalk]_vars

\* ------------------------------------------------- critical path analysis
GetCriticalPath(user, project_id) ==
    Answer("critical-path", get_critical_path(projects, tasks, deps, user, project_id))

\* Tasks A..D of project P with any start date and duration and any set of
\* dependencies that point forward in the order A, B, C, D; project Q is empty.
InitCpm ==
    /\ projects = [p \in ProjectIds |-> [owner_id |-> IF p = "P" THEN "u1" ELSE "u2"]]
    /\ tasks \in [TaskIds ->
                    [project_id : {"P"}, start_date : Dates, duration_days : Durations,
                     calc_version_id : {Token(t, 1) : t \in TaskIds}]]
    /\ \A t \in TaskIds : tasks[t].calc_version_id = Token(t, 1)
    /\ deps \in {SetToBag(S) : S \in SUBSET {<<"A", "B">>, <<"A", "C">>, <<"A", "D">>,
                                             <<"B", "C">>, <<"B", "D">>, <<"C", "D">>}}
    /\ queue = {}
    /\ issued = [t \in TaskIds |-> 1]
    /\ txn = [h \in Handlers |-> IdleTxn]
    /\ wrk = [w \in Workers |-> IdleWrk]
    /\ discarded = {}
    /\ expected = EmptyFn
    /\ proposed = EmptyFn
    /\ response = NoResponse

\* One analysis per schedule.
NextCpm == response = NoResponse /\ \E u \in Users, p \in ProjectIds : GetCriticalPath(u, p)

SpecCpm == InitCpm /\ [][NextCpm]_vars

\* ------------------------------------------- durations as requests send them
\* duration_days of TaskCreate and TaskUpdate is a plain int.
RequestDurations == {0 - 1, 0, 2}

\* Task creates and updates with any duration a request can carry, cascades
\* and critical path analyses by the owner.
NextDur ==
    \/ \E n \in RequestDurations : CreateTask("u1", "D", "P", MaxDate, n)
    \/ \E t \in TaskIds, n \in RequestDurations : UpdateTask("u1", t, {}, {n})
    \/ \E j \in queue : RunJob(j)
    \/ GetCriticalPath("u1", "P")

SpecDur == InitApi /\ [][NextDur]_vars

\* ------------------------------------- the session of a recalc job, step by step
\* bulk_update_dates assigns one row per iteration inside the session that
\* recalc_subtree opened; the rows reach the database when the block of
\* get_session_context ends.  written counts the rows assigned so far.
\* The database after the block ends: every assignment on commit, none on
\* rollback (an exception, or the cancellation that job_timeout raises).
get_session_context_autocommit(T, updated_tasks, written, exit) ==
    bulk_update_dates(T, SubSeq(updated_tasks, 1, written))

get_session_context(T, updated_tasks, written, exit) ==
    IF exit = "commit"
    THEN bulk_update_dates(T, SubSeq(updated_tasks, 1, written))
    ELSE T

\* Rows a worker session has assigned and not committed.
WorkerRows(w) == {wrk[w].updated_tasks[i].id : i \in 1..wrk[w].written}

\* One iteration of the loop of bulk_update_dates: the next row is assigned in
\* the session.  The UPDATE waits while another session holds the row.
WorkerAssign(w) ==
    /\ wrk[w].pc = "computed"
    /\ wrk[w].written < Len(wrk[w].updated_tasks)
    /\ LET id == wrk[w].updated_tasks[wrk[w].written + 1].id
       IN  /\ \A h \in Handlers : txn[h].pc = "flushed" => id \notin LockedRows(txn[h].writes)
           /\ \A w2 \in Workers \ {w} : id \notin WorkerRows(w2)
    /\ wrk' = [wrk EXCEPT ![w].written = @ + 1]
    /\ UNCHANGED <<projects, tasks, deps, queue, issued, txn, discarded, expected, proposed, response>>

\* recalc_subtree returns and get_session_context commits.
WorkerCommit(w) ==
    /\ wrk[w].pc = "computed"
    /\ wrk[w].written = Len(wrk[w].updated_tasks)
    /\ tasks' = get_session_context(tasks, wrk[w].updated_tasks, wrk[w].written, "commit")
    /\ wrk' = [wrk EXCEPT ![w] = IdleWrk]
    /\ UNCHANGED <<projects, deps, queue, issued, txn, discarded, expected, proposed, response>>

\* The job is cancelled by job_timeout, or a statement fails: the block of
\* get_session_context is left by an exception at any point after the pickup.
WorkerAbort(w) ==
    /\ wrk[w].pc # "idle"
    /\ tasks' = get_session_context(tasks, wrk[w].updated_tasks, wrk[w].written, "rollback")
    /\ wrk' = [wrk EXCEPT ![w] = IdleWrk]
    /\ UNCHANGED <<projects, deps, queue, issued, txn, discarded, expected, proposed, response>>

\* An update_task request whose UPDATE does not wait for a worker session.
TxUpdateFree(h, user, t, start_date, duration_days) ==
    /\ \A w \in Workers : t \notin WorkerRows(w)
    /\ TxUpdateTask(h, user, t, start_date, duration_days)

NextAtomic ==
    \/ \E h \in Handlers, t \in Created : TxUpdateFree(h, "u1", t, {MaxDate}, {2})
    \/ \E h \in Handlers : TxCommit(h)
    \/ \E w \in Workers, j \in queue : WorkerGuard(w, j)
    \/ \E w \in Workers : WorkerCompute(w)
    \/ \E w \in Workers : WorkerAssign(w)
    \/ \E w \in Workers : WorkerCommit(w)
    \/ \E w \in Workers : WorkerAbort(w)

SpecAtomic == InitApi /\ [][NextAtomic]_vars

\* The steps a session or a worker takes without a client, the computation
\* of recalc_subtree apart: a session that has returned is committed, a queued
\* job is picked up by a free worker slot, a job writes and commits.
Progress ==
    \/ \E h \in Handlers : TxCommit(h)
    \/ \E w \in Workers, j \in queue : WorkerGuard(w, j)
    \/ \E w \in Workers : WorkerAssign(w)
    \/ \E w \in Workers : WorkerCommit(w)

\* The same steps under the scheduling of the deployment: while a session or
\* a worker can take one of the steps above, one of them does, and a job that
\* has passed the guard goes on.  The last conjunct is the weak fairness of
\* WorkerCompute(w), which is enabled exactly while slot w is at "guarded" and
\* always leaves it.  Requests and aborts come or not; the requests are
\* finitely many.
SpecDrain ==
    /\ InitApi
    /\ [][NextAtomic]_vars
    /\ WF_vars(Progress)
    /\ \A w \in Workers : []<>(wrk[w].pc # "guarded")

\* ------------------------------------------------ end dates, wherever computed
GetTask(user, task_id) == Answer("task", get_task(projects, tasks, user, task_id))

GetProjectStatus(user, project_id) ==
    Answer("status", get_project_status(projects, tasks, user, project_id))

\* Tasks A, B, C of project P with any start date and duration, satisfied or
\* not, any of the dependencies A->B, B->C, A->C, the job of A queued, and P
\* with or without a deadline.
InitEnd ==
    /\ projects \in [ProjectIds -> [owner_id : Users, deadline : {{}, {1}}]]
    /\ projects["P"].owner_id = "u1"
    /\ projects["Q"] = [owner_id |-> "u2", deadline |-> {}]
    /\ tasks \in [{"A", "B", "C"} ->
                    [project_id : {"P"}, start_date : Dates, duration_days : Durations,
                     calc_version_id : {Token(t, 1) : t \in TaskIds}]]
    /\ \A t \in DOMAIN tasks : tasks[t].calc_version_id = Token(t, 1)
    /\ deps \in {SetToBag(S) : S \in SUBSET {<<"A", "B">>, <<"B", "C">>, <<"A", "C">>}}
    /\ queue = {Job("A", Token("A", 1))}
    /\ issued = [t \in TaskIds |-> IF t = "D" THEN 0 ELSE 1]
    /\ txn = [h \in Handlers |-> IdleTxn]
    /\ wrk = [w \in Workers |-> IdleWrk]
    /\ discarded = {}
    /\ expected = EmptyFn
    /\ proposed = EmptyFn
    /\ response = NoResponse

\* The cascade of A, and one read of the schedule before or after it: a task,
\* the project status, the critical path, or a simulation that changes B.
NextEnd ==
    \/ \E j \in queue : RunJob(j)
    \/ response = NoResponse /\ \E u \in Users, t \in TaskIds : GetTask(u, t)
    \/ response = NoResponse /\ \E u \in Users, p \in ProjectIds : GetProjectStatus(u, p)
    \/ response = NoResponse /\ GetCriticalPath("u1", "P")
    \/ response = NoResponse /\ \E c \in {x \in ChangeSets : DOMAIN x \subseteq {"B"}} :
                                  WhatIf("u1", "P", c)

SpecEnd == InitEnd /\ [][NextEnd]_vars

\* --------------------------------------------- jobs on graphs with cycles
\* A job run from the guard to the commit, with the message it returned kept.
RunAndLog(j) ==
    /\ j \in queue
    /\ queue' = queue \ {j}
    /\ tasks' = recalc_subtree(tasks, deps, j.task_id, j.version_id)
    /\ discarded' = IF recalc_guard(tasks, j.task_id, j.version_id) = "stale"
                    THEN discarded \cup {j} ELSE discarded
    /\ response' = [endpoint |-> "worker",
                    body |-> [job |-> j,
                              status |-> recalc_status(tasks, deps, j.task_id, j.version_id)]]
    /\ UNCHANGED <<projects, deps, issued, txn, wrk, expected, proposed>>

\* Tasks A, B, C of project P with any start date and duration and any set of
\* dependencies between two different tasks, cycles included (racing edge
\* insertions commit them), and the jobs of A and of B queued.
InitCycle ==
    /\ projects = [p \in ProjectIds |-> [owner_id |-> IF p = "P" THEN "u1" ELSE "u2"]]
    /\ tasks \in [{"A", "B", "C"} ->
                    [project_id : {"P"}, start_date : Dates, duration_days : Durations,
                     calc_version_id : {Token(t, 1) : t \in TaskIds}]]
    /\ \A t \in DOMAIN tasks : tasks[t].calc_version_id = Token(t, 1)
    /\ deps \in {SetToBag(S) : S \in SUBSET {e \in {"A", "B", "C"} \X {"A", "B", "C"} :
                                                e[1] # e[2]}}
    /\ queue = {Job("A", Token("A", 1)), Job("B", Token("B", 1))}
    /\ issued = [t \in TaskIds |-> IF t = "D" THEN 0 ELSE 1]
    /\ txn = [h \in Handlers |-> IdleTxn]
    /\ wrk = [w \in Workers |-> IdleWrk]
    /\ discarded = {}
    /\ expected = EmptyFn
    /\ proposed = EmptyFn
    /\ response = NoResponse

NextCycle == \E j \in queue : RunAndLog(j)

SpecCycle == InitCycle /\ [][NextCycle]_vars

\* ------------------------------------------------------- the cycle test
\* detect_cycle and get_descendants applied to the committed graph of a
\* project for a proposed edge (p, s), both results kept.
DetectCycle(project_id, p, s) ==
    Answer("detect-cycle",
           [project_id |-> project_id, predecessor_id |-> p, successor_id |-> s,
            cycle |-> detect_cycle(tasks, deps, project_id, p, s),
            descendants |-> get_descendants(tasks, deps, s, project_id)])

\* Tasks A..D of project P and any set of dependencies that point forward in
\* the order A, B, C, D: every acyclic graph on four tasks up to renaming.
InitDag ==
    /\ projects = [p \in ProjectIds |-> [owner_id |-> IF p = "P" THEN "u1" ELSE "u2"]]
    /\ tasks = [t \in TaskIds |-> [project_id |-> "P", start_date |-> 0, duration_days |-> 0,
                                   calc_version_id |-> Token(t, 1)]]
    /\ deps \in {SetToBag(S) : S \in SUBSET {<<"A", "B">>, <<"A", "C">>, <<"A", "D">>,
                                             <<"B", "C">>, <<"B", "D">>, <<"C", "D">>}}
    /\ queue = {}
    /\ issued = [t \in TaskIds |-> 1]
    /\ txn = [h \in Handlers |-> IdleTxn]
    /\ wrk = [w \in Workers |-> IdleWrk]
    /\ discarded = {}
    /\ expected = EmptyFn
    /\ proposed = EmptyFn
    /\ response = NoResponse

\* One cycle test per graph, for any pair of tasks of the project.
NextDag == response = NoResponse /\ \E p \in TaskIds, s \in TaskIds : DetectCycle("P", p, s)

SpecDag == InitDag /\ [][NextDag]_vars

\* ----------------------------------------- enqueue_recalc raising (Redis down)
\* Variant of enqueue_recalc_raises in which the handler catches the error and
\* returns normally, so that get_session commits.
enqueue_recalc_swallowed(iss, out, done, failed) ==
    Outcome(out.result, out.writes, done,
            [t \in DOMAIN iss |->
                IF t \in {j.task_id : j \in done \cup {failed}} THEN out.issued[t] ELSE iss[t]])

\* app/worker.py enqueue_recalc raising inside a handler that would otherwise
\* have returned `out`: the calls for the jobs in `done` went through, the call
\* for `failed` raised.  Versions were generated for the tasks of done and of
\* failed only; the exception leaves the handler with its flushed writes still
\* in the session.
enqueue_recalc_raises(iss, out, done, failed) ==
    Outcome("EnqueueError", out.writes, done,
            [t \in DOMAIN iss |->
                IF t \in {j.task_id : j \in done \cup {failed}} THEN out.issued[t] ELSE iss[t]])

\* A request in which one call of enqueue_recalc raises.  The successors of
\* delete_task come from a query without ORDER BY, so any of the other jobs may
\* have been enqueued before.  get_session sees the exception; the request and
\* the jobs that were enqueued are kept for reference.
EnqueueFails(endpoint, out) ==
    /\ response = NoResponse
    /\ Succeeded(out)
    /\ \E failed \in out.jobs : \E done \in SUBSET (out.jobs \ {failed}) :
          LET res == enqueue_recalc_raises(issued, out, done, failed)
          IN  /\ Respond(res)
              /\ response' = [endpoint |-> endpoint,
                              body |-> [result |-> res.result, writes |-> out.writes,
                                        jobs |-> done, failed |-> failed]]
    /\ UNCHANGED <<expected, proposed>>

\* The four schedule-changing endpoints of the owner of P, each either served
\* or failing at an enqueue (at most one failing request), and the jobs run in
\* any order.
NextFail ==
    \/ \E t \in TaskIds : UpdateTask("u1", t, {MaxDate}, {})
    \/ \E t \in TaskIds : DeleteTask("u1", t)
    \/ \E p \in TaskIds, s \in TaskIds : CreateDependency("u1", p, s)
    \/ \E p \in TaskIds, s \in TaskIds : DeleteDependency("u1", p, s)
    \/ \E t \in TaskIds :
          EnqueueFails("update_task",
                       update_task(projects, tasks, issued, "u1", t, {MaxDate}, {2}))
    \/ \E t \in TaskIds :
          EnqueueFails("delete_task", delete_task(projects, tasks, deps, issued, "u1", t))
    \/ \E p \in TaskIds, s \in TaskIds :
          EnqueueFails("create_dependency",
                       create_dependency(projects, tasks, deps, issued, "u1", p, s))
    \/ \E p \in TaskIds, s \in TaskIds :
          EnqueueFails("delete_dependency",
                       delete_dependency(projects, tasks, deps, issued, "u1", p, s))
    \/ \E j \in queue : RunJob(j)

SpecFail == InitApi /\ [][NextFail]_vars

\* ------------------------------------------- recalc_subtree on any schedule
\* Tasks A..D of project P with any start date and duration, any set of
\* dependencies that point forward in the order A, B, C, D (every acyclic graph
\* on four tasks up to renaming), satisfied or not, and the job of A queued.
\* D has no successor, so its duration is read by nothing; it is a milestone.
InitGraph ==
    /\ projects = [p \in ProjectIds |-> [owner_id |-> IF p = "P" THEN "u1" ELSE "u2"]]
    /\ tasks \in [TaskIds ->
                    [project_id : {"P"}, start_date : Dates, duration_days : Durations,
                     calc_version_id : {Token(t, 1) : t \in TaskIds}]]
    /\ \A t \in TaskIds : tasks[t].calc_version_id = Token(t, 1)
    /\ tasks["D"].duration_days = 0
    /\ deps \in {SetToBag(S) : S \in SUBSET {e \in TaskIds \X TaskIds :
                                    <<e[1], e[2]>> \in {<<"A", "B">>, <<"A", "C">>, <<"A", "D">>,
                                                        <<"B", "C">>, <<"B", "D">>, <<"C", "D">>}}}
    /\ queue = {Job("A", Token("A", 1))}
    /\ issued = [t \in TaskIds |-> 1]
    /\ txn = [h \in Handlers |-> IdleTxn]
    /\ wrk = [w \in Workers |-> IdleWrk]
    /\ discarded = {}
    /\ expected = EmptyFn
    /\ proposed = EmptyFn
    /\ response = NoResponse

NextRecalc == \E j \in queue : RunJob(j)

SpecRecalc == InitGraph /\ [][NextRecalc]_vars

\* ================================================================== claims
\* endDate as the data model defines it: startDate for a milestone, otherwise
\* startDate + duration - 1.
ClaimEndDate(row) ==
    IF row.duration_days = 0 THEN row.start_date
    ELSE row.start_date + row.duration_days - 1

\* Every persisted edge (p, s) has s.startDate >= p.endDate + 1.
AllEdgesSatisfied ==
    \A e \in DOMAIN deps :
        /\ e[1] \in DOMAIN tasks
        /\ e[2] \in DOMAIN tasks
        /\ tasks[e[2]].start_date >= ClaimEndDate(tasks[e[1]]) + 1

\* Every calc_version_id generated so far.
IssuedTokens == UNION {{Token(t, k) : k \in 1..issued[t]} : t \in TaskIds}

\* C1 (SpecSeq): sequential convergence.  Mutations are served one at a time
\* from a state with an empty queue whose edges are all satisfied; whenever the
\* jobs of the mutation have all run (the queue is empty again) every persisted
\* edge (p, s) satisfies s.startDate >= p.endDate + 1.
C1_SequentialConvergence == (queue = {}) => AllEdgesSatisfied

\* A drained state after a mutation in which a cascade pushed a successor past
\* every date a request can carry.
C1_Witness ==
    /\ queue = {}
    /\ TotalIssued(issued) > 3
    /\ \E e \in DOMAIN deps : tasks[e[2]].start_date > MaxDate + 1

AdmitEdgeContract(p, s) ==
    IF p \notin DOMAIN tasks \/ s \notin DOMAIN tasks THEN "NotFound"
    ELSE IF tasks[p].project_id # tasks[s].project_id THEN "CrossProject"
    ELSE IF p = s THEN "SelfDependency"
    ELSE IF <<p, s>> \in DOMAIN deps THEN "Duplicate"
    ELSE IF p \in Descendants(DOMAIN deps, s) \cup {s} THEN "CycleDetected"
    ELSE "created"

\* C5 (SpecApi): in every reachable state and for every request (p, s) made by
\* the owner of p's project, create_dependency answers NotFound, CrossProject,
\* SelfDependency, Duplicate, CycleDetected in that order of precedence, and
\* p = s on an existing task is answered SelfDependency.
C5_AdmitEdgeClassification ==
    \A u \in Users, p \in TaskIds, s \in TaskIds :
        LET out == create_dependency(projects, tasks, deps, issued, u, p, s)
        IN  (out.result # "Forbidden") => out.result = AdmitEdgeContract(p, s)

\* A state in which all five errors can be drawn: D was created in project Q,
\* a task was deleted, and an edge is stored.
C5_Witness ==
    /\ \E p \in TaskIds, s \in TaskIds : AdmitEdgeContract(p, s) = "NotFound" /\ issued[p] > 0 /\ issued[s] > 0
    /\ \E p \in TaskIds, s \in TaskIds : AdmitEdgeContract(p, s) = "CrossProject"
    /\ \E p \in TaskIds, s \in TaskIds : AdmitEdgeContract(p, s) = "Duplicate"
    /\ \E p \in TaskIds, s \in TaskIds : AdmitEdgeContract(p, s) = "CycleDetected"
    /\ \E p \in DOMAIN tasks : AdmitEdgeContract(p, p) = "SelfDependency"

AdmitEdgeErrors == {"NotFound", "CrossProject", "SelfDependency", "Duplicate", "CycleDetected"}

\* C6 (SpecApi): a create_dependency request that fails with NotFound,
\* CrossProject, SelfDependency, Duplicate or CycleDetected changes no table
\* row (no edge, no versionToken) and enqueues no job.
C6_FailedAdmissionChangesNothing ==
    [][\/ UNCHANGED <<projects, tasks, deps, queue>>
       \/ \A u \in Users, p \in TaskIds, s \in TaskIds :
             ~(/\ create_dependency(projects, tasks, deps, issued, u, p, s).result \in AdmitEdgeErrors
               /\ CreateDependency(u, p, s))]_vars

\* A state with a job waiting in which a request closing a cycle over two
\* stored edges is refused.
C6_Witness ==
    /\ queue # {}
    /\ \E p \in TaskIds, s \in TaskIds :
          /\ create_dependency(projects, tasks, deps, issued, "u1", p, s).result = "CycleDetected"
          /\ <<s, p>> \notin DOMAIN deps

\* C7 (SpecApi): a create_dependency request that succeeds stores exactly the
\* new edge, gives s a version token never issued before, enqueues exactly the
\* job (s, new token), and leaves every other column of every task alone.
C7_SuccessfulAdmissionEffect ==
    [][\/ UNCHANGED <<tasks, deps, queue, issued>>
       \/ \A u \in Users, p \in TaskIds, s \in TaskIds :
          (/\ create_dependency(projects, tasks, deps, issued, u, p, s).result = "created"
           /\ CreateDependency(u, p, s))
          => /\ <<p, s>> \notin DOMAIN deps
             /\ deps' = deps (+) SetToBag({<<p, s>>})
             /\ DOMAIN tasks' = DOMAIN tasks
             /\ tasks'[s].calc_version_id \notin IssuedTokens
             /\ queue' = queue \cup {Job(s, tasks'[s].calc_version_id)}
             /\ Job(s, tasks'[s].calc_version_id) \notin queue
             /\ \A t \in DOMAIN tasks :
                   /\ tasks'[t].start_date = tasks[t].start_date
                   /\ tasks'[t].duration_days = tasks[t].duration_days
                   /\ tasks'[t].project_id = tasks[t].project_id
                   /\ (t # s) => tasks'[t].calc_version_id = tasks[t].calc_version_id
             /\ projects' = projects]_vars

\* An admitted edge whose successor carries the new token, with the job for
\* that token in the queue.
C7_Witness ==
    \E e \in DOMAIN deps :
        /\ e \notin {<<"A", "B">>, <<"B", "C">>, <<"A", "C">>}
        /\ e[2] \in DOMAIN tasks
        /\ Job(e[2], tasks[e[2]].calc_version_id) \in queue

\* No request is between its flush and its commit, no job waits, and no
\* worker is between its guard and its commit.
Quiescent ==
    /\ queue = {}
    /\ \A h \in Handlers : txn[h].pc = "idle"
    /\ \A w \in Workers : wrk[w].pc = "idle"

\* C2 (Spec): convergence under concurrency.  With requests and workers
\* interleaved step by step, whenever every request has committed and every
\* enqueued job has been processed, every persisted edge (p, s) satisfies
\* s.startDate >= p.endDate + 1.
C2_ConcurrentConvergence == Quiescent => AllEdgesSatisfied

\* C3 (Spec): in every committed state the edge set is acyclic, also when two
\* create_dependency requests run as concurrent transactions.
C3_CommittedEdgesAcyclic == ~FindCycle(DOMAIN deps)

\* C8 (SpecApi): a job (taskId, token) whose token differs from the token the
\* root row carries when the worker reads it performs no writes: no column of
\* any task, no edge and no project changes, no token is issued and no job is
\* enqueued; the job only leaves the queue.
C8_StaleJobWritesNothing ==
    [][\A j \in queue :
          (/\ j.task_id \in DOMAIN tasks
           /\ tasks[j.task_id].calc_version_id # j.version_id
           /\ RunJob(j))
          => /\ tasks' = tasks
             /\ deps' = deps
             /\ projects' = projects
             /\ issued' = issued
             /\ queue' = queue \ {j}]_vars

\* A stale job was discarded in a state where a recalculation from its root
\* would have moved a task.
C8_Witness ==
    \E j \in discarded :
        /\ j.task_id \in DOMAIN tasks
        /\ tasks[j.task_id].calc_version_id # j.version_id
        /\ recalc_compute(tasks, deps, j.task_id, tasks[j.task_id].project_id).status = "updated"

\* C9 (Spec): jobs are enqueued only after commit.  For every job
\* (taskId, token) in the queue whose task exists, the committed row of taskId
\* carries that token or one issued after it.
C9_EnqueuedAfterCommit ==
    \A j \in queue :
        j.task_id \in DOMAIN tasks =>
            tasks[j.task_id].calc_version_id[2] >= j.version_id[2]

\* C10 (Spec): the job carrying the token of a task's last committed mutation
\* is never discarded as stale: no discarded job carries the token its root's
\* committed row holds.
C10_CurrentJobNeverDiscarded ==
    \A j \in discarded :
        j.task_id \in DOMAIN tasks =>
            tasks[j.task_id].calc_version_id # j.version_id

\* C11 (SpecStale): stale-job scenario.  When one task T was updated twice and
\* nothing else was mutated, then once both requests have committed and both
\* jobs have finished, the persisted start dates are the dates the second job
\* computes when run alone on the state committed by the second update.
C11_StaleJobScenario ==
    \A T \in DOMAIN tasks :
        (/\ Quiescent
         /\ issued[T] = 3
         /\ \A t \in TaskIds \ {T} : issued[t] <= 1)
        => StartDates(tasks) = expected

\* C12 (SpecRecalc): idempotence of the cascade.  For every schedule over an
\* acyclic graph and every root, running recalc_subtree with the root's current
\* token and then running it again yields an empty update list on the second
\* run (zero task writes).
C12_CascadeIdempotent ==
    \A root \in DOMAIN tasks :
        LET token == tasks[root].calc_version_id
            once == recalc_subtree(tasks, deps, root, token)
        IN  recalc_compute(once, deps, root, once[root].project_id).updated_tasks = <<>>

\* A state left by a job that pushed two tasks past every date of the input.
C12_Witness ==
    /\ queue = {}
    /\ Cardinality({t \in DOMAIN tasks : tasks[t].start_date > MaxDate}) >= 2

\* C13 (SpecSim): simulation purity.  A simulate request, for any change set and
\* whether it answers or fails, leaves every task row, every dependency row,
\* every project and the job queue unchanged and issues no token.
C13_SimulationPurity ==
    [][\/ UNCHANGED <<projects, tasks, deps, queue, issued>>
       \/ \A u \in Users, p \in ProjectIds, c \in ChangeSets : ~Simulate(u, p, c)]_vars

\* A state in which one simulation answers with a task moved and another fails.
C13_Witness ==
    /\ \E c \in ChangeSets :
          LET result == simulate_changes(tasks, deps, "P", c)
          IN  result.ok /\ result.affected_tasks # <<>> /\ result.impact_days > 0
    /\ ~simulate_changes(tasks, deps, "Q", EmptyFn).ok
    /\ queue # {}

\* C14 (SpecRecalc): slack preservation.  In a recalc pass, a task n that has
\* predecessors and whose stored start date is at or after the latest end date
\* of its predecessors as the pass leaves them, plus one day, keeps its stored
\* start date and has no entry in the update list of the pass.
C14_SlackPreservation ==
    [][\/ UNCHANGED tasks
       \/ \A j \in queue :
             RunJob(j) =>
               LET E == Edges(deps)
                   updated_tasks ==
                       recalc_compute(tasks, deps, j.task_id,
                                      tasks[j.task_id].project_id).updated_tasks
               IN  \A n \in DOMAIN tasks :
                     (/\ Predecessors(E, n) # {}
                      /\ tasks[n].start_date >=
                            Max({ClaimEndDate(tasks'[p]) : p \in Predecessors(E, n)}) + 1)
                     => /\ tasks'[n].start_date = tasks[n].start_date
                        /\ \A i \in 1..Len(updated_tasks) : updated_tasks[i].id # n]_vars

\* The job has run and pushed some task past every initial date, and a task
\* with predecessors starts later than the day after their latest end: it was
\* not pushed, it kept the slack it had.
C14_Witness ==
    /\ queue = {}
    /\ \E t \in DOMAIN tasks : tasks[t].start_date > MaxDate
    /\ \E n \in DOMAIN tasks :
          /\ Predecessors(Edges(deps), n) # {}
          /\ tasks[n].start_date <= MaxDate
          /\ tasks[n].start_date >
                Max({ClaimEndDate(tasks[p]) : p \in Predecessors(Edges(deps), n)}) + 1

\* C15 (SpecRoundTrip): round trip.  On a project whose edges are all
\* satisfied, once every change of a simulation has been applied as a task
\* update (one per changed task, in any order, jobs running in between or not)
\* and the queue has drained, every task's persisted start date equals its
\* simulated start date.
C15_RoundTrip ==
    (expected # EmptyFn /\ proposed = EmptyFn /\ queue = {})
        => StartDates(tasks) = expected

\* C16 (Spec): frame of the recalc worker.  A step of a worker (it takes a job
\* off the queue or moves on in recalc_subtree) changes no task's
\* calc_version_id, duration or project, no dependency and no project, creates
\* and deletes no task; a start date changes only for a task in the update
\* list the worker computed, to the date listed there.
C16_WorkerFrame ==
    [][(wrk' # wrk \/ (queue' # queue /\ queue' \subseteq queue)) =>
         /\ deps' = deps
         /\ projects' = projects
         /\ DOMAIN tasks' = DOMAIN tasks
         /\ \A t \in DOMAIN tasks :
               /\ tasks'[t].calc_version_id = tasks[t].calc_version_id
               /\ tasks'[t].duration_days = tasks[t].duration_days
               /\ tasks'[t].project_id = tasks[t].project_id
               /\ tasks'[t].start_date # tasks[t].start_date =>
                     \E w \in Workers :
                        /\ wrk[w].pc = "computed"
                        /\ wrk'[w].pc = "idle"
                        /\ \E i \in 1..Len(wrk[w].updated_tasks) :
                              /\ wrk[w].updated_tasks[i].id = t
                              /\ wrk[w].updated_tasks[i].start_date = tasks'[t].start_date]_vars

\* A worker has written: a task whose token a request has renewed starts on a
\* date no request can set, and the workers are idle again.
C16_Witness ==
    /\ \A w \in Workers : wrk[w].pc = "idle"
    /\ \E t \in DOMAIN tasks :
          /\ tasks[t].start_date > MaxDate
          /\ tasks[t].calc_version_id # Token(t, 1)

\* C17 (SpecApi): every task update renews the token.  In every state, an
\* update of a task t by its owner, whatever fields it sets (no scheduling
\* field for a title-only update), commits t with a calc_version_id that was
\* never issued before, enqueues exactly one job, the job (t, new token), and
\* touches no other row; so the tokens returned by successive updates of t are
\* pairwise distinct and the persisted token is the last one returned.
C17_UpdateRenewsToken ==
    \A u \in Users, t \in DOMAIN tasks, d \in OptDates, n \in OptDurations :
        LET out == update_task(projects, tasks, issued, u, t, d, n)
            committed == CommitTasks(tasks, out.writes)
        IN  Owns(projects, u, tasks[t].project_id) =>
              /\ Succeeded(out)
              /\ DOMAIN committed = DOMAIN tasks
              /\ committed[t].calc_version_id \notin IssuedTokens
              /\ committed[t].calc_version_id = Token(t, out.issued[t])
              /\ out.issued = [issued EXCEPT ![t] = @ + 1]
              /\ out.jobs = {Job(t, committed[t].calc_version_id)}
              /\ out.jobs \cap queue = {}
              /\ \A x \in DOMAIN tasks \ {t} : committed[x] = tasks[x]

\* A task has been updated twice: the jobs of both updates are queued with
\* distinct tokens and the persisted token is the one of the second update.
C17_Witness ==
    \E t \in DOMAIN tasks :
       /\ issued[t] = 3
       /\ tasks[t].calc_version_id = Token(t, 3)
       /\ {Job(t, Token(t, 2)), Job(t, Token(t, 3))} \subseteq queue

\* Both updates of task t have committed.
BothCommitted(t) ==
    /\ issued[t] = 3
    /\ \A h \in Handlers : txn[h].pc = "idle" \/ t \notin DOMAIN txn[h].writes.upd

\* Of the jobs of the two updates of t, the one carrying the persisted token
\* passes the guard and the other does not.
OneJobPasses(t) ==
    \A k \in {2, 3} :
        recalc_guard(tasks, t, Token(t, k)) = "current"
            <=> tasks[t].calc_version_id = Token(t, k)

\* C18 (SpecRace): concurrent updates of one task serialize.  The commit of an
\* update of t leaves t with the token that transaction generated and nothing
\* else changes t's token, so after two overlapping updates the persisted token
\* is the one of the transaction that committed later, whichever generated its
\* token first; once both have committed, the job of that token is the only
\* one of the two that the guard lets through.
C18_UpdatesSerialize ==
    [][\A t \in DOMAIN tasks :
          /\ \A h \in Handlers :
                (txn[h].pc = "flushed" /\ txn'[h].pc = "idle" /\ t \in DOMAIN txn[h].writes.upd)
                   => {tasks'[t].calc_version_id} = txn[h].writes.upd[t].calc_version_id
          /\ (\A h \in Handlers :
                 ~(txn[h].pc = "flushed" /\ txn'[h].pc = "idle" /\ t \in DOMAIN txn[h].writes.upd))
                   => tasks'[t].calc_version_id = tasks[t].calc_version_id
          /\ BothCommitted(t) => OneJobPasses(t)
          /\ (BothCommitted(t) => OneJobPasses(t))']_vars

\* Two updates of a task overlapped: the one that generated its token first
\* committed last, its token is the persisted one, and of the two jobs the
\* workers discarded the other one only.
C18_Witness ==
    \E t \in DOMAIN tasks :
       /\ BothCommitted(t)
       /\ tasks[t].calc_version_id = Token(t, 2)
       /\ Job(t, Token(t, 3)) \in discarded
       /\ Job(t, Token(t, 2)) \notin discarded \cup queue

C20_DeleteEdgeEffect ==
    \A u \in Users, p \in TaskIds, s \in TaskIds :
        LET out == delete_dependency(projects, tasks, deps, issued, u, p, s)
            committed == CommitTasks(tasks, out.writes)
        IN  IF <<p, s>> \notin Edges(deps)
            THEN /\ out.result = "NotFound"
                 /\ ~Succeeded(out)
                 /\ out.writes = NoWrites
                 /\ out.jobs = {}
                 /\ out.issued = issued
            ELSE Owns(projects, u, tasks[p].project_id) =>
                 /\ Succeeded(out)
                 /\ Edges(CommitDeps(deps, out.writes)) = Edges(deps) \ {<<p, s>>}
                 /\ CommitProjects(projects, out.writes) = projects
                 /\ DOMAIN committed = DOMAIN tasks
                 /\ committed[s].calc_version_id \notin IssuedTokens
                 /\ committed[s].calc_version_id = Token(s, out.issued[s])
                 /\ out.issued = [issued EXCEPT ![s] = @ + 1]
                 /\ out.jobs = {Job(s, committed[s].calc_version_id)}
                 /\ out.jobs \cap queue = {}
                 /\ committed[p] = tasks[p]
                 /\ \A x \in DOMAIN tasks :
                       /\ committed[x].start_date = tasks[x].start_date
                       /\ committed[x].duration_days = tasks[x].duration_days
                       /\ x # s => committed[x] = tasks[x]

\* An edge (p, s) was created and deleted again: it is not stored, s carries
\* its third token with the jobs of both changes queued, and p still has the
\* token it was created with.
C20_Witness ==
    \E p \in DOMAIN tasks, s \in DOMAIN tasks :
       /\ p # s
       /\ <<p, s>> \notin Edges(deps)
       /\ issued[p] = 1
       /\ tasks[p].calc_version_id = Token(p, 1)
       /\ tasks[s].calc_version_id = Token(s, 3)
       /\ {Job(s, Token(s, 2)), Job(s, Token(s, 3))} \subseteq queue

\* C21 (SpecApi): a job whose root is gone.  When a job leaves the queue and
\* its root task is not in the tasks table (the task or its project was
\* deleted), whatever token the job carries, the step writes no task, no
\* dependency and no project, issues no token, enqueues nothing and does not
\* count the job as a stale one: recalc_subtree just returns.
C21_MissingRootReturns ==
    [][\A j \in queue :
          (queue' = queue \ {j} /\ j.task_id \notin DOMAIN tasks)
             => UNCHANGED <<projects, tasks, deps, issued, discarded>>]_vars

\* The jobs of a task that was updated and then deleted together with its
\* project have run: the project and the task are gone, the queue is empty and
\* none of the task's jobs was counted as stale.
C21_Witness ==
    /\ "P" \notin DOMAIN projects
    /\ queue = {}
    /\ \E t \in TaskIds :
          /\ issued[t] >= 2
          /\ t \notin DOMAIN tasks
          /\ \A k \in 1..issued[t] : Job(t, Token(t, k)) \notin discarded

\* The last response is a critical path analysis.
Analysed == response.endpoint = "critical-path" /\ response.body.result = "ok"

\* The entry of task n in the task_analyses of the last response.
AnalysisOf(n) ==
    LET list == response.body.task_analyses
    IN  list[CHOOSE i \in 1..Len(list) : list[i].task_id = n]

\* C23 (SpecCpm): CPM passes.  In an analysis of an acyclic project every task
\* has one entry, and for every task n: ES(n) is the stored start date if n
\* has no predecessors, else the latest EF of its predecessors plus one;
\* EF(n) = ES(n) for duration 0, else ES(n) + duration - 1; LF(n) is the
\* latest EF of all tasks if n has no successors, else the earliest LS of its
\* successors minus one; LS(n) = LF(n) for duration 0, else
\* LF(n) - duration + 1; slack(n) = LS(n) - ES(n).
C23_CpmPasses ==
    Analysed =>
      LET list == response.body.task_analyses
          ids == {t \in DOMAIN tasks : tasks[t].project_id = response.body.project_id}
          E == {e \in Edges(deps) : e[1] \in ids /\ e[2] \in ids}
      IN  /\ Len(list) = Cardinality(ids)
          /\ {list[i].task_id : i \in 1..Len(list)} = ids
          /\ response.body.project_end_date = Max({AnalysisOf(x).earliest_finish : x \in ids})
          /\ \A n \in ids :
                LET a == AnalysisOf(n)
                    preds == {e[1] : e \in {x \in E : x[2] = n}}
                    succs == {e[2] : e \in {x \in E : x[1] = n}}
                    duration == tasks[n].duration_days
                IN  /\ a.duration_days = duration
                    /\ a.earliest_start =
                          IF preds = {} THEN tasks[n].start_date
                          ELSE Max({AnalysisOf(q).earliest_finish : q \in preds}) + 1
                    /\ a.earliest_finish =
                          IF duration = 0 THEN a.earliest_start
                          ELSE a.earliest_start + duration - 1
                    /\ a.latest_finish =
                          IF succs = {} THEN Max({AnalysisOf(x).earliest_finish : x \in ids})
                          ELSE Min({AnalysisOf(x).latest_start : x \in succs}) - 1
                    /\ a.latest_start =
                          IF duration = 0 THEN a.latest_finish
                          ELSE a.latest_finish - duration + 1
                    /\ a.total_slack = a.latest_start - a.earliest_start

\* An analysis in which a task with two predecessors and a successor is a
\* milestone, a task has slack and another has none.
C23_Witness ==
    /\ Analysed
    /\ \E n \in DOMAIN tasks :
          /\ Cardinality(Predecessors(Edges(deps), n)) = 2
          /\ Successors(Edges(deps), {n}) # {}
          /\ tasks[n].duration_days = 0
    /\ \E n \in DOMAIN tasks : AnalysisOf(n).total_slack > 0
    /\ \E n \in DOMAIN tasks : AnalysisOf(n).total_slack = 0

\* C22 (SpecDur): critical set.  In an analysis of an acyclic project with at
\* least one task, critical_path_task_ids holds exactly the tasks n with
\* LS(n) = ES(n), and it is not empty.
C22_CriticalSet ==
    Analysed =>
      LET list == response.body.task_analyses
          critical == response.body.critical_path_task_ids
      IN  /\ {critical[i] : i \in 1..Len(critical)} =
                {list[i].task_id : i \in {k \in 1..Len(list) :
                                             list[k].latest_start = list[k].earliest_start}}
          /\ critical # <<>>

\* C26 (SpecDur): durations are never negative.  In every persisted state the
\* duration of every task is at least 0, whatever task creates and task
\* updates were requested.
C26_DurationNonNegative ==
    \A t \in DOMAIN tasks : tasks[t].duration_days >= 0

\* The last response is the result of a simulation.
Simulated == response.endpoint = "simulate" /\ response.body.result.ok

\* C24 (SpecWalk): simulation walk.  In the result of a simulation, a task
\* with no predecessors in the project starts on its changed start date if the
\* change set gives one, else on its stored one; a task with predecessors
\* starts on max(requested, earliest) if the change set gives it a start date
\* and on max(stored start, earliest) otherwise, where earliest is the latest
\* simulated end date of its predecessors plus one; every end date is the
\* start for duration 0 and start + duration - 1 otherwise, with the changed
\* duration if the change set gives one.
C24_SimulationWalk ==
    Simulated =>
      LET changes == response.body.changes
          result == response.body.result
          ids == {t \in DOMAIN tasks : tasks[t].project_id = response.body.project_id}
          E == {e \in Edges(deps) : e[1] \in ids /\ e[2] \in ids}
      IN  /\ DOMAIN result.start_date = ids
          /\ DOMAIN result.end_date = ids
          /\ \A n \in ids :
                LET preds == {e[1] : e \in {x \in E : x[2] = n}}
                    requested == IF n \in DOMAIN changes THEN changes[n].start_date ELSE {}
                    resized == IF n \in DOMAIN changes THEN changes[n].duration_days ELSE {}
                    duration == IF resized = {} THEN tasks[n].duration_days
                                ELSE CHOOSE v \in resized : TRUE
                    wanted == IF requested = {} THEN tasks[n].start_date
                              ELSE CHOOSE v \in requested : TRUE
                    earliest == Max({result.end_date[q] : q \in preds}) + 1
                IN  /\ result.start_date[n] =
                          IF preds = {} THEN wanted ELSE Max({wanted, earliest})
                    /\ result.end_date[n] =
                          IF duration = 0 THEN result.start_date[n]
                          ELSE result.start_date[n] + duration - 1

\* A simulation that moves anchor A to the latest date with duration 2 and
\* asks for B, a successor of A, on day 0: B is placed the day after A ends.
C24_Witness ==
    /\ Simulated
    /\ <<"A", "B">> \in Edges(deps)
    /\ DOMAIN response.body.changes = {"A", "B"}
    /\ response.body.changes["A"].start_date = {MaxDate}
    /\ response.body.changes["B"].start_date = {0}
    /\ response.body.result.start_date["A"] = MaxDate
    /\ response.body.result.start_date["B"] = MaxDate + 2

\* C25 (SpecWalk): simulation output.  In the result of a simulation the
\* simulated end is the latest simulated end date of all tasks, the original
\* end is the latest stored end date of all tasks, the impact is their
\* difference, and the impact list holds, once each, exactly the tasks whose
\* simulated end date differs from their stored end date: a task whose start
\* moved while its end did not is not listed.
C25_SimulationOutput ==
    Simulated =>
      LET result == response.body.result
          ids == {t \in DOMAIN tasks : tasks[t].project_id = response.body.project_id}
          listed == {result.affected_tasks[i] : i \in 1..Len(result.affected_tasks)}
      IN  /\ result.simulated_end_date = Max({result.end_date[n] : n \in ids})
          /\ result.original_end_date = Max({ClaimEndDate(tasks[n]) : n \in ids})
          /\ result.impact_days = result.simulated_end_date - result.original_end_date
          /\ listed = {n \in ids : result.end_date[n] # ClaimEndDate(tasks[n])}
          /\ Len(result.affected_tasks) = Cardinality(listed)
          /\ result.total_tasks = Cardinality(ids)

\* A simulation that delays the project: some tasks are listed, and a task
\* whose start moved while its end stayed is not.
C25_Witness ==
    /\ Simulated
    /\ response.body.result.impact_days > 0
    /\ response.body.result.affected_tasks # <<>>
    /\ \E n \in DOMAIN tasks :
          /\ response.body.result.start_date[n] # tasks[n].start_date
          /\ response.body.result.end_date[n] = ClaimEndDate(tasks[n])
          /\ \A i \in 1..Len(response.body.result.affected_tasks) :
                response.body.result.affected_tasks[i] # n

\* C27: the writes of a recalc job are atomic.  A step of a worker session
\* either leaves every stored task as it was (the job is still running, found
\* nothing to do, or was aborted), or it is the commit of the session and
\* stores the whole update list of the job at once: every listed task that
\* still exists takes its computed start date and nothing else changes.
C27_AtomicWrites ==
    [][\/ UNCHANGED <<tasks, wrk>>
       \/ \A w \in Workers :
             wrk'[w] # wrk[w] =>
                \/ tasks' = tasks
                \/ LET updated == wrk[w].updated_tasks
                       listed == {updated[i].id : i \in 1..Len(updated)}
                   IN  /\ wrk[w].written = Len(updated)
                       /\ wrk'[w].pc = "idle"
                       /\ DOMAIN tasks' = DOMAIN tasks
                       /\ \A i \in 1..Len(updated) :
                             updated[i].id \in DOMAIN tasks =>
                                tasks'[updated[i].id].start_date = updated[i].start_date
                       /\ \A t \in DOMAIN tasks :
                             /\ t \notin listed => tasks'[t] = tasks[t]
                             /\ tasks'[t].duration_days = tasks[t].duration_days
                             /\ tasks'[t].calc_version_id = tasks[t].calc_version_id]_vars

\* A job with two updates has assigned the first one in its session and not
\* the second: no stored row carries an update of the job yet, and the job
\* can still be aborted.
C27_Witness ==
    \E w \in Workers :
       /\ wrk[w].pc = "computed"
       /\ Len(wrk[w].updated_tasks) = 2
       /\ wrk[w].written = 1
       /\ \A i \in 1..2 :
             /\ wrk[w].updated_tasks[i].id \in DOMAIN tasks
             /\ tasks[wrk[w].updated_tasks[i].id].start_date # wrk[w].updated_tasks[i].start_date

\* C28: push rule.  A recalc pass leaves every task n that has at least one
\* predecessor inside the fetched subgraph at the later of its stored start
\* date and the day after the latest end date of those predecessors, the end
\* dates being the ones the pass itself leaves (a pushed predecessor pushes by
\* its new end date).
C28_PushRule ==
    [][\A j \in queue :
          (RunJob(j) /\ recalc_guard(tasks, j.task_id, j.version_id) = "current") =>
             LET sub == fetch_subgraph(tasks, deps, j.task_id, tasks[j.task_id].project_id)
             IN  \A n \in DOMAIN sub.tasks :
                    LET inside == {e[1] : e \in {x \in sub.dependencies : x[2] = n}}
                    IN  inside # {} =>
                          tasks'[n].start_date =
                             Max({tasks[n].start_date} \cup
                                 {ClaimEndDate(tasks'[p]) + 1 : p \in inside})]_vars

\* The job has run; a task n has two predecessors that end on different days,
\* the later of them was itself pushed past every initial date, and n starts
\* the day after that predecessor's new end.
C28_Witness ==
    /\ queue = {}
    /\ \E n \in DOMAIN tasks :
          \E p \in Predecessors(Edges(deps), n), q \in Predecessors(Edges(deps), n) :
             /\ ClaimEndDate(tasks[p]) > ClaimEndDate(tasks[q])
             /\ tasks[p].start_date > MaxDate
             /\ Predecessors(Edges(deps), p) # {}
             /\ tasks[n].start_date = ClaimEndDate(tasks[p]) + 1

\* C29: the end date is derived the same way wherever it is computed: the
\* start date for duration 0, otherwise start + duration - 1.  The task read
\* model, the project status, the forward pass of the critical path analysis
\* and the simulation answer with that end date, and a recalc pass schedules
\* by it: after the pass every task of the subgraph starts no earlier than
\* the day after the end of each predecessor (the day after the milestone's own
\* day when the predecessor is a milestone), and a milestone the pass moved
\* starts, and so ends, the day after the latest end of its predecessors.
C29_EndDateDerivation ==
    [][/\ (response' # response /\ response'.endpoint = "task"
              /\ response'.body.result = "ok") =>
             LET body == response'.body.task
             IN  body.end_date = ClaimEndDate(tasks[body.id])
       /\ (response' # response /\ response'.endpoint = "status"
              /\ response'.body.result = "ok") =>
             LET ids == {t \in DOMAIN tasks : tasks[t].project_id = response'.body.project_id}
             IN  ids # {} =>
                   response'.body.projected_end_date = {Max({ClaimEndDate(tasks[t]) : t \in ids})}
       /\ (response' # response /\ response'.endpoint = "critical-path"
              /\ response'.body.result = "ok") =>
             \A i \in 1..Len(response'.body.task_analyses) :
                LET a == response'.body.task_analyses[i]
                IN  a.earliest_finish = ClaimEndDate([start_date |-> a.earliest_start,
                                                      duration_days |-> a.duration_days])
       /\ (response' # response /\ response'.endpoint = "simulate"
              /\ response'.body.result.ok) =>
             LET changes == response'.body.changes
                 result == response'.body.result
             IN  /\ result.original_end_date =
                       Max({ClaimEndDate(tasks[n]) : n \in DOMAIN result.end_date})
                 /\ \A n \in DOMAIN result.end_date :
                       LET resized == IF n \in DOMAIN changes THEN changes[n].duration_days
                                      ELSE {}
                           duration == IF resized = {} THEN tasks[n].duration_days
                                       ELSE CHOOSE v \in resized : TRUE
                       IN  result.end_date[n] =
                              ClaimEndDate([start_date |-> result.start_date[n],
                                            duration_days |-> duration])
       /\ \A j \in queue :
             (RunJob(j) /\ recalc_guard(tasks, j.task_id, j.version_id) = "current") =>
                LET sub == fetch_subgraph(tasks, deps, j.task_id, tasks[j.task_id].project_id)
                IN  \A n \in DOMAIN sub.tasks :
                       LET inside == {e[1] : e \in {x \in sub.dependencies : x[2] = n}}
                       IN  /\ \A p \in inside :
                                 /\ tasks'[n].start_date >= ClaimEndDate(tasks'[p]) + 1
                                 /\ tasks'[p].duration_days = 0 =>
                                       tasks'[n].start_date >= tasks'[p].start_date + 1
                           /\ (inside # {} /\ tasks'[n].duration_days = 0
                                  /\ tasks'[n].start_date # tasks[n].start_date) =>
                                 /\ tasks'[n].start_date =
                                       Max({ClaimEndDate(tasks'[p]) : p \in inside}) + 1
                                 /\ ClaimEndDate(tasks'[n]) = tasks'[n].start_date]_vars

\* The cascade has pushed milestone B to the day after the end of A, a task of
\* two days, and C to the day after B; the task read of B then answers with
\* an end date equal to its start date.
C29_Witness ==
    /\ queue = {}
    /\ {<<"A", "B">>, <<"B", "C">>} \subseteq Edges(deps)
    /\ tasks["A"].duration_days = 2
    /\ tasks["B"].duration_days = 0
    /\ tasks["B"].start_date = tasks["A"].start_date + 2
    /\ tasks["B"].start_date > MaxDate
    /\ tasks["C"].start_date = tasks["B"].start_date + 1
    /\ response.endpoint = "task"
    /\ response.body.result = "ok"
    /\ response.body.task.id = "B"
    /\ response.body.task.end_date = tasks["B"].start_date

\* C30: anchors are never rewritten.  In a recalc pass every fetched task
\* with no predecessor inside the fetched subgraph keeps its stored start
\* date, whatever it is, and has no entry in the update list; so the root of
\* the job, when it has no predecessors, is not modified by its own cascade.
C30_AnchorsKept ==
    [][\A j \in queue :
          (RunJob(j) /\ recalc_guard(tasks, j.task_id, j.version_id) = "current") =>
             LET sub == fetch_subgraph(tasks, deps, j.task_id, tasks[j.task_id].project_id)
                 updated_tasks ==
                     recalc_compute(tasks, deps, j.task_id,
                                    tasks[j.task_id].project_id).updated_tasks
                 Anchor(n) == ~\E e \in sub.dependencies : e[2] = n
             IN  /\ \A n \in DOMAIN sub.tasks :
                       Anchor(n) =>
                          /\ tasks'[n] = tasks[n]
                          /\ \A i \in 1..Len(updated_tasks) : updated_tasks[i].id # n
                 /\ Predecessors(Edges(deps), j.task_id) = {} =>
                       tasks'[j.task_id] = tasks[j.task_id]]_vars

\* The job of A has run and pushed a task past every initial date; that task
\* has a predecessor without predecessors, other than the root, which still
\* starts on day 0, and the root is where it was, on the latest initial date.
C30_Witness ==
    /\ queue = {}
    /\ Predecessors(Edges(deps), "A") = {}
    /\ tasks["A"].start_date = MaxDate
    /\ \E n \in DOMAIN tasks, p \in DOMAIN tasks \ {"A"} :
          /\ tasks[n].start_date > MaxDate
          /\ <<p, n>> \in Edges(deps)
          /\ Predecessors(Edges(deps), p) = {}
          /\ tasks[p].start_date = 0

\* C31: the update list of a recalc pass.  A fetched task is in the list if
\* and only if the start date the pass computes for it (its stored start, or
\* the day after the latest end of its fetched predecessors when that is
\* later) differs from the start date read at the beginning of the pass; a
\* listed task appears once, with the computed date; and the pass writes the
\* listed tasks and no other.
C31_UpdateList ==
    [][\A j \in queue :
          (RunJob(j) /\ recalc_guard(tasks, j.task_id, j.version_id) = "current") =>
             LET sub == fetch_subgraph(tasks, deps, j.task_id, tasks[j.task_id].project_id)
                 updated_tasks ==
                     recalc_compute(tasks, deps, j.task_id,
                                    tasks[j.task_id].project_id).updated_tasks
                 listed == {updated_tasks[i].id : i \in 1..Len(updated_tasks)}
                 inside(n) == {e[1] : e \in {x \in sub.dependencies : x[2] = n}}
                 computed(n) ==
                     IF inside(n) = {} THEN tasks[n].start_date
                     ELSE Max({tasks[n].start_date} \cup
                              {ClaimEndDate(tasks'[p]) + 1 : p \in inside(n)})
             IN  /\ listed = {n \in DOMAIN sub.tasks : computed(n) # tasks[n].start_date}
                 /\ Cardinality(listed) = Len(updated_tasks)
                 /\ \A i \in 1..Len(updated_tasks) :
                       /\ updated_tasks[i].start_date = computed(updated_tasks[i].id)
                       /\ tasks'[updated_tasks[i].id].start_date = updated_tasks[i].start_date
                 /\ \A n \in DOMAIN tasks \ listed : tasks'[n] = tasks[n]]_vars

\* The job has run on a chain where one successor was pushed past every
\* initial date and another task with predecessors kept its date: the first
\* was listed and written, the second was not.
C31_Witness ==
    /\ queue = {}
    /\ \E n \in DOMAIN tasks, m \in DOMAIN tasks :
          /\ Predecessors(Edges(deps), n) # {}
          /\ Predecessors(Edges(deps), m) # {}
          /\ tasks[n].start_date > MaxDate
          /\ tasks[m].start_date <= MaxDate
          /\ tasks[m].start_date >=
                Max({ClaimEndDate(tasks[p]) : p \in Predecessors(Edges(deps), m)}) + 1

\* C32: a recalc job rooted at r writes only to r and to transitive
\* successors of r; a task fetched only as a direct predecessor of one of
\* them keeps its row, also when two such tasks are joined by an edge that
\* the second one's stored start date violates.
C32_WritesOnlyDownstream ==
    [][\A j \in queue :
          RunJob(j) =>
             \A n \in DOMAIN tasks :
                n \notin Downstream(Edges(deps), {j.task_id}) => tasks'[n] = tasks[n]]_vars

\* C33: a job whose fetched subgraph contains a directed cycle ends without
\* writing to any task and returns normally, with the cycle message.
C33_CycleNoWrites ==
    [][\A j \in queue :
          (RunAndLog(j) /\ j.task_id \in DOMAIN tasks
              /\ tasks[j.task_id].calc_version_id = j.version_id) =>
             LET E == Edges(deps)
                 down == Downstream(E, {j.task_id})
                 fetched == down \cup {e[1] : e \in {x \in E : x[2] \in down}}
                 inside == {e \in E : e[1] \in fetched /\ e[2] \in fetched}
                 Reach(n) == Downstream(inside, {e[2] : e \in {x \in inside : x[1] = n}})
             IN  (\E n \in fetched : n \in Reach(n)) =>
                    /\ tasks' = tasks
                    /\ response'.body.status = "cycle"]_vars

\* A job has returned the cycle message on a graph where B and C depend on
\* each other, fetched behind an edge A -> B that the stored dates violate.
C33_Witness ==
    /\ response.endpoint = "worker"
    /\ response.body.status = "cycle"
    /\ response.body.job.task_id = "A"
    /\ {<<"A", "B">>, <<"B", "C">>, <<"C", "B">>} \subseteq Edges(deps)
    /\ <<"B", "A">> \notin Edges(deps)
    /\ <<"C", "A">> \notin Edges(deps)
    /\ tasks["B"].start_date < ClaimEndDate(tasks["A"]) + 1

\* C34: cycle test equivalence.  On an acyclic project graph, for tasks p and
\* s of the project, detect_cycle answers true for the proposed edge (p, s)
\* exactly when p is s or a descendant of s, the descendants of s being the
\* tasks reachable from s along edges, s excluded.
C34_CycleTestEquivalence ==
    response.endpoint = "detect-cycle" =>
       LET body == response.body
           reachable == Downstream(Edges(deps), {body.successor_id}) \ {body.successor_id}
       IN  /\ body.descendants = reachable
           /\ body.cycle <=> body.predecessor_id \in body.descendants \cup {body.successor_id}

\* The test answered true for an edge whose predecessor is reachable from its
\* successor only over an intermediate task.
C34_Witness ==
    /\ response.endpoint = "detect-cycle"
    /\ response.body.cycle
    /\ response.body.predecessor_id # response.body.successor_id
    /\ <<response.body.successor_id, response.body.predecessor_id>> \notin Edges(deps)

\* C35: monotone writes.  A step of a recalc worker never moves the stored
\* start date of a task to an earlier day, and every entry of the update list
\* a worker computes carries a date later than the start date the worker read
\* for that task.
C35_MonotoneWrites ==
    [][\/ UNCHANGED <<tasks, wrk>>
       \/ (wrk' # wrk) =>
             /\ \A t \in DOMAIN tasks \cap DOMAIN tasks' :
                   tasks'[t].start_date >= tasks[t].start_date
             /\ \A w \in Workers :
                   (wrk[w].pc = "guarded" /\ wrk'[w].pc = "computed") =>
                      \A k \in 1..Len(wrk'[w].updated_tasks) :
                         wrk'[w].updated_tasks[k].start_date >
                            tasks[wrk'[w].updated_tasks[k].id].start_date]_vars

\* C36: the queue drains.  No step of a recalc worker adds a job to the
\* queue, and under fair scheduling of the workers, once the finitely many
\* mutations are over, the queue is empty and every worker slot is free for
\* good: every job has terminated.
C36_QueueDrains ==
    /\ [][(wrk' # wrk) => (queue' \subseteq queue)]_vars
    /\ <>[](queue = {} /\ \A w \in Workers : wrk[w].pc = "idle")

\* The token budget is used up, a job has written a pushed date, and the
\* queue is empty with both worker slots free.
C36_Witness ==
    /\ queue = {}
    /\ \A w \in Workers : wrk[w].pc = "idle"
    /\ \A h \in Handlers : txn[h].pc = "idle"
    /\ TotalIssued(issued) = MaxTokens
    /\ \E t \in DOMAIN tasks : tasks[t].start_date > MaxDate + 1

\* C37: CPM slack is never negative.  In the analysis of an acyclic project
\* whose durations are not negative, every task has LS >= ES and LF >= EF
\* (so its slack is at least 0), and every edge (p, s) of the project has
\* ES(s) >= EF(p) + 1 and LF(p) <= LS(s) - 1.
C37_SlackNotNegative ==
    (Analysed /\ \A t \in DOMAIN tasks : tasks[t].duration_days >= 0) =>
       LET ids == {t \in DOMAIN tasks : tasks[t].project_id = response.body.project_id}
       IN  /\ \A n \in ids :
                 /\ AnalysisOf(n).latest_start >= AnalysisOf(n).earliest_start
                 /\ AnalysisOf(n).latest_finish >= AnalysisOf(n).earliest_finish
                 /\ AnalysisOf(n).total_slack >= 0
           /\ \A e \in Edges(deps) :
                 (e[1] \in ids /\ e[2] \in ids) =>
                    /\ AnalysisOf(e[2]).earliest_start >= AnalysisOf(e[1]).earliest_finish + 1
                    /\ AnalysisOf(e[1]).latest_finish <= AnalysisOf(e[2]).latest_start - 1

\* An analysis of a project with an edge whose successor is stored earlier
\* than the edge allows, and with a task that has slack to spare.
C37_Witness ==
    /\ Analysed
    /\ \E e \in Edges(deps) :
          tasks[e[2]].start_date < ClaimEndDate(tasks[e[1]]) + 1
    /\ \E n \in DOMAIN tasks : AnalysisOf(n).total_slack > 0
    /\ \E n \in DOMAIN tasks : AnalysisOf(n).total_slack = 0

\* C38: CPM against the persisted schedule.  When every persisted edge of the
\* project is satisfied, a critical path analysis gives every task an
\* earliest start no later than its persisted start date, and a project end
\* date no later than the projected end date of the project status; the CPM
\* end is strictly earlier when a critical task starts later than the day
\* after the latest persisted end of its predecessors.
C38_CpmNotLaterThanStatus ==
    [][(/\ response' # response
        /\ response'.endpoint = "critical-path"
        /\ response'.body.result = "ok"
        /\ AllEdgesSatisfied) =>
          LET body == response'.body
              ids == {t \in DOMAIN tasks : tasks[t].project_id = body.project_id}
              analysis(n) ==
                  body.task_analyses[CHOOSE i \in 1..Len(body.task_analyses) :
                                        body.task_analyses[i].task_id = n]
              status == get_project_status(projects, tasks, projects[body.project_id].owner_id,
                                           body.project_id)
              HoldsSlack(n) ==
                  /\ Predecessors(Edges(deps), n) # {}
                  /\ tasks[n].start_date >
                        Max({ClaimEndDate(tasks[q]) : q \in Predecessors(Edges(deps), n)}) + 1
          IN  /\ \A n \in ids : analysis(n).earliest_start <= tasks[n].start_date
              /\ \A d \in status.projected_end_date : body.project_end_date <= d
              /\ status.projected_end_date # {}
              /\ (\E n \in ids : analysis(n).is_critical /\ HoldsSlack(n)) =>
                    \A d \in status.projected_end_date : body.project_end_date < d]_vars

\* An analysis of a satisfied schedule in which B, a successor of A, is
\* critical and starts later than the day after A ends.
C38_Witness ==
    /\ response.endpoint = "critical-path"
    /\ response.body.result = "ok"
    /\ AllEdgesSatisfied
    /\ <<"A", "B">> \in Edges(deps)
    /\ Predecessors(Edges(deps), "B") = {"A"}
    /\ tasks["B"].start_date > ClaimEndDate(tasks["A"]) + 1
    /\ \E i \in 1..Len(response.body.task_analyses) :
          /\ response.body.task_analyses[i].task_id = "B"
          /\ response.body.task_analyses[i].is_critical
          /\ response.body.task_analyses[i].earliest_start < tasks["B"].start_date

\* C39: null simulation.  On a project whose edges are all satisfied, a
\* simulation whose change set is empty or names only tasks outside the
\* project returns impact 0, a simulated end equal to the original end and an
\* empty impact list; and in any simulation a task that the change set does
\* not name gets a simulated start no earlier than its stored start.
C39_NullSimulation ==
    Simulated =>
      LET changes == response.body.changes
          result == response.body.result
          ids == {t \in DOMAIN tasks : tasks[t].project_id = response.body.project_id}
      IN  /\ (AllEdgesSatisfied /\ DOMAIN changes \cap ids = {}) =>
                /\ result.impact_days = 0
                /\ result.simulated_end_date = result.original_end_date
                /\ result.affected_tasks = <<>>
                /\ \A n \in ids : result.start_date[n] = tasks[n].start_date
          /\ \A n \in ids \ DOMAIN changes :
                result.start_date[n] >= tasks[n].start_date

\* A simulation that names only D, which is not in the project, on a
\* satisfied schedule where C starts later than its predecessor B requires.
C39_Witness ==
    /\ Simulated
    /\ DOMAIN response.body.changes = {"D"}
    /\ response.body.changes["D"].start_date = {MaxDate}
    /\ AllEdgesSatisfied
    /\ Predecessors(Edges(deps), "C") = {"B"}
    /\ tasks["C"].start_date > ClaimEndDate(tasks["B"]) + 1
    /\ response.body.result.impact_days = 0

\* The request whose enqueue_recalc call raised, and the jobs it had enqueued.
EnqueueFailed == response.endpoint \in {"update_task", "delete_task",
                                        "create_dependency", "delete_dependency"}

OrphanJobs == IF EnqueueFailed THEN response.body.jobs ELSE {}

====
